---- MODULE Spec2Model ----
(***************************************************************************)
(* Model of the character stream (src/src/source.rs) and of the pp-token   *)
(* scanner (src/src/lexer.rs) of the C preprocessor front end.             *)
(*                                                                         *)
(* Characters are Unicode scalar values (integers).  A text is a sequence  *)
(* of characters.  Offsets into a text are 0-based as in the source, so    *)
(* the character at offset n of text t is t[n + 1].                        *)
(*                                                                         *)
(* A Rust panic (a failed assert!, an unwrap of None) aborts the program.  *)
(* The stream value carries a field "panic"; an operation that panics      *)
(* sets it, and every operation on a panicked stream does nothing and      *)
(* returns None, so that the enclosing loops of the model end.  The        *)
(* actions report such a call as the outcome "Panic" and the program as    *)
(* stopped.                                                                *)
(*                                                                         *)
(* A local value  let p = e  of the source is written                      *)
(*     CHOOSE v \in { ... p ... : p \in {e} } : TRUE                        *)
(* which is the value of ... p ... with p standing for the value of e.     *)
(***************************************************************************)
EXTENDS Integers, Sequences, FiniteSets, TLC

VARIABLES
    files,      \* Source.files: sequence of [name, text]
    iters,      \* Source.iters: the active-file stack of SourcePointers
    switched,   \* Source.switched: pending "file changed" marker
    emit,       \* the caller's trivia buffer handed to next_token
    panicked,   \* TRUE once a call has panicked (the program is gone)
    last,       \* the last operation and what it returned
    out,        \* the results of the next_token calls since the last push (up to the first Eof)
    fresh,      \* observer: the stack changed since the last character returned by next
    pushes      \* observer: number of push calls so far

vars == <<files, iters, switched, emit, panicked, last, out, fresh, pushes>>

(***************************************************************************)
(* Characters.                                                             *)
(***************************************************************************)
TAB == 9
LF == 10
FF == 12
CR == 13
SPACE == 32
DQUOTE == 34
SQUOTE == 39
STAR == 42
PLUS == 43
MINUS == 45
DOT == 46
SLASH == 47
BACKSLASH == 92
UNDERSCORE == 95
LowerE == 101
UpperE == 69
LowerX == 120

\* char::is_ascii_whitespace: space, tab, line feed, form feed, carriage return
is_ascii_whitespace(c) == c \in {SPACE, TAB, LF, FF, CR}
is_ascii_digit(c) == c \in 48..57
is_ascii_alphabetic(c) == c \in 65..90 \/ c \in 97..122
is_ascii_alphanumeric(c) == is_ascii_alphabetic(c) \/ is_ascii_digit(c)
is_ascii_hexdigit(c) == is_ascii_digit(c) \/ c \in 65..70 \/ c \in 97..102

(***************************************************************************)
(* Values of src/src/source.rs.                                            *)
(***************************************************************************)
Point(file, line, col) == [file |-> file, line |-> line, col |-> col]

SourceFile(name, text) == [name |-> name, text |-> text]

\* SourcePointer whose Position names the file after the one pushed.
SourcePointer_next_file(file) ==
    [file |-> file, next |-> 0, next_loc |-> Point(file + 1, 1, 1)]

\* The pointer every push creates: offset 0, line 1, column 1.
SourcePointer(file) == [file |-> file, next |-> 0, next_loc |-> Point(file, 1, 1)]

\* Option<SourceChar>: Some(SourceChar), None, or the call panicked.
SomeChar(ch, pt, sw) == [tag |-> "Some", ch |-> ch, pt |-> pt, switched |-> sw]
NoneChar == [tag |-> "None", ch |-> 0, pt |-> Point(0, 0, 0), switched |-> FALSE]
PanicChar == [tag |-> "Panic", ch |-> 0, pt |-> Point(0, 0, 0), switched |-> FALSE]

\* Source::new
NewSource == [files |-> <<>>, iters |-> <<>>, switched |-> FALSE, panic |-> FALSE]

Last(s) == s[Len(s)]
Front(s) == SubSeq(s, 1, Len(s) - 1)

TextOf(fs, sp) == fs[sp.file + 1].text

\* pop_nested without "self.switched = true".
RECURSIVE pop_nested_keeps_flag(_)
pop_nested_keeps_flag(s) ==
    IF s.iters = <<>> THEN s
    ELSE IF Last(s.iters).next < Len(TextOf(s.files, Last(s.iters))) THEN s
    ELSE pop_nested_keeps_flag([s EXCEPT !.iters = Front(s.iters)])

\* pop_nested that empties the stack once the innermost file is exhausted.
pop_nested_clears(s) ==
    IF s.iters = <<>> THEN s
    ELSE IF Last(s.iters).next < Len(TextOf(s.files, Last(s.iters))) THEN s
    ELSE [s EXCEPT !.switched = TRUE, !.iters = <<>>]

\* pop_nested that puts the pointer it uncovers back to the start of its file.
pop_nested_rewinds(s) ==
    IF s.iters = <<>> THEN s
    ELSE IF Last(s.iters).next < Len(TextOf(s.files, Last(s.iters))) THEN s
    ELSE IF Len(s.iters) = 1 THEN [s EXCEPT !.switched = TRUE, !.iters = <<>>]
    ELSE [s EXCEPT !.switched = TRUE,
                   !.iters = Append(Front(Front(s.iters)),
                                    SourcePointer(Last(Front(s.iters)).file))]

\* Source::pop_nested: drop exhausted pointers from the top, marking a switch.
RECURSIVE pop_nested(_)
pop_nested(s) ==
    IF s.iters = <<>> THEN s
    ELSE IF Last(s.iters).next < Len(TextOf(s.files, Last(s.iters))) THEN s
    ELSE pop_nested([s EXCEPT !.switched = TRUE, !.iters = Front(s.iters)])

\* Source::push_data: always a new SourceFile, whatever the name.
push_data(s, name, text) ==
    LET file == Len(s.files)
    IN  pop_nested([s EXCEPT !.files = Append(s.files, SourceFile(name, text)),
                             !.iters = Append(s.iters, SourcePointer(file)),
                             !.switched = TRUE])

\* files.iter().enumerate().find(|(_, sf)| sf.name == *name): first index or -1
FindFile(fs, name) ==
    IF \E i \in 1..Len(fs) : fs[i].name = name
    THEN (CHOOSE i \in 1..Len(fs) :
             fs[i].name = name /\ \A j \in 1..(i - 1) : fs[j].name # name) - 1
    ELSE -1

\* CcError::new: an error without a Position (loc: None).
CcError_new(what) == [what |-> what, loc |-> [tag |-> "None"]]

\* From<std::io::Error> for CcError; the text of the error is the system's.
CcError_from(e) == CcError_new(e)

\* push_file that keeps an entry for the file it failed to read.
push_file_keeps_entry(s, name, read) ==
    LET found == FindFile(s.files, name)
    IN  IF found >= 0
        THEN [s |-> [s EXCEPT !.iters = Append(s.iters, SourcePointer(found)),
                              !.switched = TRUE],
              ok |-> TRUE]
        ELSE IF ~read.ok
        THEN [s |-> [s EXCEPT !.files = Append(s.files, SourceFile(name, <<>>))],
              ok |-> FALSE, err |-> CcError_from("io")]
        ELSE [s |-> push_data(s, name, read.text), ok |-> TRUE]

\* Source::push_file.  read is the outcome of std::fs::read_to_string, used
\* only when the name is not loaded yet: [ok |-> TRUE, text |-> t] or
\* [ok |-> FALSE].  The cached branch returns without calling pop_nested.
\* A failed read returns early through the ? operator with the converted
\* error.
push_file(s, name, read) ==
    LET found == FindFile(s.files, name)
    IN  IF found >= 0
        THEN [s |-> [s EXCEPT !.iters = Append(s.iters, SourcePointer(found)),
                              !.switched = TRUE],
              ok |-> TRUE]
        ELSE IF ~read.ok
        THEN [s |-> s, ok |-> FALSE, err |-> CcError_from("io")]
        ELSE [s |-> push_data(s, name, read.text), ok |-> TRUE]

\* extract_one_char that counts the column on across a newline.
extract_one_char_keeps_col(text, sp) ==
    LET ch == text[sp.next + 1]
        pt == sp.next_loc
    IN  IF ch = CR \/ ch = LF
        THEN LET n1 == sp.next + 1
                 pair == /\ n1 < Len(text)
                         /\ \/ (ch = CR /\ text[n1 + 1] = LF)
                            \/ (ch = LF /\ text[n1 + 1] = CR)
                 n2 == IF pair THEN n1 + 1 ELSE n1
             IN  [sp |-> [sp EXCEPT !.next = n2,
                                    !.next_loc = Point(pt.file, pt.line + 1, pt.col + 1)],
                  ch |-> SomeChar(LF, pt, FALSE)]
        ELSE [sp |-> [sp EXCEPT !.next = sp.next + 1,
                                !.next_loc = Point(pt.file, pt.line, pt.col + 1)],
              ch |-> SomeChar(ch, pt, FALSE)]

\* extract_one_char that joins CR LF but not LF CR.
extract_one_char_crlf_only(text, sp) ==
    LET ch == text[sp.next + 1]
        pt == sp.next_loc
    IN  IF ch = CR \/ ch = LF
        THEN LET n1 == sp.next + 1
                 pair == n1 < Len(text) /\ ch = CR /\ text[n1 + 1] = LF
                 n2 == IF pair THEN n1 + 1 ELSE n1
             IN  [sp |-> [sp EXCEPT !.next = n2,
                                    !.next_loc = Point(pt.file, pt.line + 1, 1)],
                  ch |-> SomeChar(LF, pt, FALSE)]
        ELSE [sp |-> [sp EXCEPT !.next = sp.next + 1,
                                !.next_loc = Point(pt.file, pt.line, pt.col + 1)],
              ch |-> SomeChar(ch, pt, FALSE)]

\* Source::extract_one_char: the pointer after one logical character, and
\* that character.  CR, LF, CR LF and LF CR are one newline.
extract_one_char(text, sp) ==
    LET ch == text[sp.next + 1]
        pt == sp.next_loc
    IN  IF ch = CR \/ ch = LF
        THEN LET n1 == sp.next + 1
                 pair == /\ n1 < Len(text)
                         /\ \/ (ch = CR /\ text[n1 + 1] = LF)
                            \/ (ch = LF /\ text[n1 + 1] = CR)
                 n2 == IF pair THEN n1 + 1 ELSE n1
             IN  [sp |-> [sp EXCEPT !.next = n2,
                                    !.next_loc = Point(pt.file, pt.line + 1, 1)],
                  ch |-> SomeChar(LF, pt, FALSE)]
        ELSE [sp |-> [sp EXCEPT !.next = sp.next + 1,
                                !.next_loc = Point(pt.file, pt.line, pt.col + 1)],
              ch |-> SomeChar(ch, pt, FALSE)]

\* The character under a pointer as peek and peek_n report it.
PeekAt(s, its, sw) ==
    LET sp == Last(its)
        text == TextOf(s.files, sp)
    IN  IF ~(sp.next < Len(text)) THEN PanicChar          \* assert!
        ELSE LET ch == text[sp.next + 1]
             IN  SomeChar(IF ch = CR THEN LF ELSE ch, sp.next_loc, sw)

\* Source::peek
peek(s) ==
    IF s.panic THEN NoneChar
    ELSE IF s.iters = <<>> THEN NoneChar
    ELSE PeekAt(s, s.iters, s.switched)

\* The inner loop of peek_n without "switched = true".
RECURSIVE PeekPop_keeps_flag(_, _, _)
PeekPop_keeps_flag(s, its, sw) ==
    IF its = <<>> THEN [its |-> its, switched |-> sw]
    ELSE IF Last(its).next < Len(TextOf(s.files, Last(its)))
    THEN [its |-> its, switched |-> sw]
    ELSE PeekPop_keeps_flag(s, Front(its), sw)

\* The inner loop of peek_n: pop exhausted pointers of the cloned stack.
RECURSIVE PeekPop(_, _, _)
PeekPop(s, its, sw) ==
    IF its = <<>> THEN [its |-> its, switched |-> sw]
    ELSE IF Last(its).next < Len(TextOf(s.files, Last(its)))
    THEN [its |-> its, switched |-> sw]
    ELSE PeekPop(s, Front(its), TRUE)

\* The outer loop of peek_n that unwraps the last pointer of the cloned stack
\* after the pop as well.
RECURSIVE PeekLoop_unwraps(_, _, _)
PeekLoop_unwraps(s, its, n) ==
    IF its = <<>> THEN PanicChar
    ELSE IF ~(Last(its).next < Len(TextOf(s.files, Last(its))))
    THEN PanicChar
    ELSE CHOOSE v \in {
             IF p.its = <<>> THEN PanicChar
             ELSE IF n - 1 = 0 THEN PeekAt(s, p.its, p.switched)
             ELSE PeekLoop_unwraps(s, p.its, n - 1)
           : p \in {PeekPop(s,
                       Append(Front(its),
                              extract_one_char(TextOf(s.files, Last(its)), Last(its)).sp),
                       FALSE)} } : TRUE

\* The outer loop of peek_n (entered with n > 0) and its final match.
RECURSIVE PeekLoop(_, _, _)
PeekLoop(s, its, n) ==
    IF its = <<>> THEN PanicChar                          \* iters.last().unwrap()
    ELSE IF ~(Last(its).next < Len(TextOf(s.files, Last(its))))
    THEN PanicChar                                        \* assert! in extract_one_char
    ELSE CHOOSE v \in {
             IF p.its = <<>> THEN NoneChar
             ELSE IF n - 1 = 0 THEN PeekAt(s, p.its, p.switched)
             ELSE PeekLoop(s, p.its, n - 1)
           : p \in {PeekPop(s,
                       Append(Front(its),
                              extract_one_char(TextOf(s.files, Last(its)), Last(its)).sp),
                       FALSE)} } : TRUE

\* Source::peek_n
peek_n(s, n) ==
    IF s.panic THEN NoneChar
    ELSE IF n > 0 THEN PeekLoop(s, s.iters, n)
    ELSE IF s.iters = <<>> THEN NoneChar
    ELSE PeekAt(s, s.iters, s.switched)

\* next after extract_one_char returned e: store the pointer, clear the
\* flag reporting its old value, and pop what is exhausted.
Extracted(s, e_) ==
    CHOOSE v \in {
        [s |-> pop_nested([s EXCEPT !.switched = FALSE,
                                    !.iters = Append(Front(s.iters), e.sp)]),
         r |-> [e.ch EXCEPT !.switched = s.switched]]
      : e \in {e_} } : TRUE

\* Iterator::next for Source: [s |-> the stream after, r |-> Option<SourceChar>]
source_next(s) ==
    IF s.panic THEN [s |-> s, r |-> NoneChar]
    ELSE IF s.iters = <<>> THEN [s |-> s, r |-> NoneChar]
    ELSE IF ~(Last(s.iters).next < Len(TextOf(s.files, Last(s.iters))))
    THEN [s |-> [s EXCEPT !.panic = TRUE], r |-> PanicChar]   \* assert!
    ELSE Extracted(s, extract_one_char(TextOf(s.files, Last(s.iters)), Last(s.iters)))

\* Source::get_filename
get_filename(s, file) ==
    IF file < Len(s.files) THEN [tag |-> "Some", name |-> s.files[file + 1].name]
    ELSE [tag |-> "None", name |-> ""]


(***************************************************************************)
(* Values of src/src/lexer.rs.                                             *)
(***************************************************************************)
\* PpToken: a kind and, for the variants that carry one, the text.
Tok(kind, text) == [kind |-> kind, text |-> text]
Punct(kind) == Tok(kind, <<>>)
Eof == Tok("Eof", <<>>)
\* Option<PpToken>::None of lookup_op
NoTok == Tok("None", <<>>)

\* Result<PpToken, CcError>, or the call panicked.
NoPoint == Point(0, 0, 0)
Ok(tok) == [tag |-> "Ok", tok |-> tok, msg |-> "", pt |-> NoPoint]
Err(msg, pt) == [tag |-> "Err", tok |-> NoTok, msg |-> msg, pt |-> pt]
Panic == [tag |-> "Panic", tok |-> NoTok, msg |-> "", pt |-> NoPoint]

\* OpNode::new(token, next); next = <<>> stands for None.
OpNode(token, next) == [token |-> token, next |-> next]
Leaf(kind) == OpNode(Punct(kind), <<>>)

\* The OPERATORS table.
OPERATORS ==
    (40 :> Leaf("LeftParen")) @@ (41 :> Leaf("RightParen")) @@
    (123 :> Leaf("LeftBrace")) @@ (125 :> Leaf("RightBrace")) @@
    (91 :> Leaf("LeftBracket")) @@ (93 :> Leaf("RightBracket")) @@
    (59 :> Leaf("Semicolon")) @@ (35 :> Leaf("Hash")) @@
    (63 :> Leaf("Question")) @@ (58 :> Leaf("Colon")) @@
    (44 :> Leaf("Comma")) @@ (126 :> Leaf("BitNot")) @@
    (46 :> Leaf("Dot")) @@
    (43 :> OpNode(Punct("Add"),
              (43 :> Leaf("Increment")) @@ (61 :> Leaf("AddAssign")))) @@
    (45 :> OpNode(Punct("Subtract"),
              (43 :> Leaf("Decrement")) @@ (61 :> Leaf("SubtractAssign")) @@
              (62 :> Leaf("Arrow")))) @@
    (42 :> OpNode(Punct("Star"), (61 :> Leaf("MultiplyAssign")))) @@
    (47 :> OpNode(Punct("Divide"),
              (61 :> Leaf("DivideAssign")) @@ (42 :> Leaf("BlockComment")) @@
              (47 :> Leaf("LineComment")))) @@
    (37 :> OpNode(Punct("Mod"), (61 :> Leaf("ModAssign")))) @@
    (61 :> OpNode(Punct("Assign"), (61 :> Leaf("Equal")))) @@
    (33 :> OpNode(Punct("LogicalNot"), (61 :> Leaf("NotEqual")))) @@
    (38 :> OpNode(Punct("Ampersand"),
              (61 :> Leaf("AndAssign")) @@ (38 :> Leaf("LogicalAnd")))) @@
    (124 :> OpNode(Punct("BitOr"),
              (61 :> Leaf("OrAssign")) @@ (124 :> Leaf("LogicalOr")))) @@
    (94 :> OpNode(Punct("BitXor"), (61 :> Leaf("XorAssign")))) @@
    (60 :> OpNode(Punct("Less"),
              (61 :> Leaf("LessEqual")) @@
              (60 :> OpNode(Punct("ShiftLeft"), (61 :> Leaf("LeftShiftAssign")))))) @@
    (62 :> OpNode(Punct("Greater"),
              (61 :> Leaf("GreaterEqual")) @@
              (62 :> OpNode(Punct("ShiftRight"), (61 :> Leaf("RightShiftAssign"))))))

\* A panic met by a call on stream s with outcome r stops the program.
Chk(s, r) == IF r.tag = "Panic" THEN [s EXCEPT !.panic = TRUE] ELSE s

RECURSIVE next_spliced(_)

\* next_spliced that returns every backslash as a character of its own.
NextSplicedBackslash_no_splice(p, s1_) == [s |-> s1_, r |-> p]

\* next_spliced after the backslash p was consumed leaving stream s1_.
NextSplicedBackslash(p, s1_) ==
    CHOOSE v \in {
        IF s1.p2.tag = "Some" /\ s1.p2.ch = LF
        THEN next_spliced(source_next(s1.s).s)
        ELSE [s |-> Chk(s1.s, s1.p2), r |-> p]
      : s1 \in {[s |-> x, p2 |-> peek(x)] : x \in {s1_}} } : TRUE

\* next_spliced: consume and return the next character, skipping splices.
next_spliced(s_) ==
    CHOOSE v \in {
        IF c.p.tag = "Panic" THEN [s |-> Chk(c.s, c.p), r |-> NoneChar]
        ELSE IF c.p.tag = "Some" /\ c.p.ch = BACKSLASH
        THEN NextSplicedBackslash(c.p, source_next(c.s).s)
        ELSE source_next(c.s)
      : c \in {[s |-> x, p |-> peek(x)] : x \in {s_}} } : TRUE

RECURSIVE PeekSplicedFrom(_, _)

\* peek_spliced that skips one splice only.
PeekSplicedPair_once(s, n, c) ==
    CHOOSE v \in {
        IF c2.tag = "Panic" THEN PanicChar
        ELSE IF c2.tag = "Some" /\ c2.ch = LF THEN peek_n(s, n + 2)
        ELSE c
      : c2 \in {peek_n(s, n + 1)} } : TRUE

\* peek_spliced having seen the backslash c at depth n.
PeekSplicedPair(s, n, c) ==
    CHOOSE v \in {
        IF c2.tag = "Panic" THEN PanicChar
        ELSE IF c2.tag = "Some" /\ c2.ch = LF THEN PeekSplicedFrom(s, n + 2)
        ELSE c
      : c2 \in {peek_n(s, n + 1)} } : TRUE

\* The loop of peek_spliced, at lookahead depth n.
PeekSplicedFrom(s, n) ==
    CHOOSE v \in {
        IF c.tag = "Some" /\ c.ch = BACKSLASH THEN PeekSplicedPair(s, n, c) ELSE c
      : c \in {peek_n(s, n)} } : TRUE

\* peek_spliced: the next character after any splices, not consumed.
peek_spliced(s) == PeekSplicedFrom(s, 0)

RECURSIVE PeekSplicedNFrom(_, _, _)

\* peek_spliced_n having seen the backslash c at depth i.
PeekSplicedNPair(s, n, i, c) ==
    CHOOSE v \in {
        IF c2.tag = "Panic" THEN PanicChar
        ELSE IF c2.tag = "Some" /\ c2.ch = LF THEN PeekSplicedNFrom(s, n, i + 2)
        ELSE c
      : c2 \in {peek_n(s, i + 1)} } : TRUE

\* The loop of peek_spliced_n: n genuine characters still to skip, at depth i.
PeekSplicedNFrom(s, n, i) ==
    CHOOSE v \in {
        IF c.tag = "Panic" THEN PanicChar
        ELSE IF c.tag = "Some" /\ c.ch = BACKSLASH THEN PeekSplicedNPair(s, n, i, c)
        ELSE IF n = 0 THEN c
        ELSE PeekSplicedNFrom(s, n - 1, i + 1)
      : c \in {peek_n(s, i)} } : TRUE

\* peek_spliced_n
peek_spliced_n(s, n) == PeekSplicedNFrom(s, n, 0)

\* The outcome r_ of a lookahead on stream s as the scanner's functions see
\* it: the stream (stopped if the lookahead panicked) and Some or None.
Peeked(s, r_) ==
    CHOOSE v \in {
        [s |-> Chk(s, r), r |-> IF r.tag = "Panic" THEN NoneChar ELSE r]
      : r \in {r_} } : TRUE

\* peek_spliced as the scanner's functions use it.
PS(s_) == CHOOSE v \in {Peeked(s, peek_spliced(s)) : s \in {s_}} : TRUE

\* IdentLoop that consumes the character it stops at.
RECURSIVE IdentLoop_eats_stop(_, _)
IdentLoop_eats_stop(s, idchars) ==
    CHOOSE v \in {
        IF p.r.tag # "Some" THEN [s |-> p.s, text |-> idchars]
        ELSE IF is_ascii_alphanumeric(p.r.ch) \/ p.r.ch = UNDERSCORE
        THEN IdentLoop_eats_stop(next_spliced(p.s).s, Append(idchars, p.r.ch))
        ELSE [s |-> next_spliced(p.s).s, text |-> idchars]
      : p \in {PS(s)} } : TRUE

\* The loop of identifier.
RECURSIVE IdentLoop(_, _)
IdentLoop(s, idchars) ==
    CHOOSE v \in {
        IF p.r.tag # "Some" THEN [s |-> p.s, text |-> idchars]
        ELSE IF is_ascii_alphanumeric(p.r.ch) \/ p.r.ch = UNDERSCORE
        THEN IdentLoop(next_spliced(p.s).s, Append(idchars, p.r.ch))
        ELSE [s |-> p.s, text |-> idchars]
      : p \in {PS(s)} } : TRUE

\* Ok(PpToken::kind(text)) for the text a loop gathered.
TextToken(l_, kind) ==
    CHOOSE v \in {[s |-> l.s, r |-> Ok(Tok(kind, l.text))] : l \in {l_}} : TRUE

\* identifier
identifier(s) == TextToken(IdentLoop(s, <<>>), "Identifier")

RECURSIVE NumLoop(_, _)

\* NumLoopExp that takes no sign after the exponent letter.
NumLoopExp_no_sign(s, ch, numchars) == NumLoop(s, Append(numchars, ch))

\* The loop of ppnumber after the exponent letter ch was consumed leaving
\* stream s: a sign that follows belongs to the number.
NumLoopExp(s, ch, numchars) ==
    CHOOSE v \in {
        IF q.r.tag = "Some" /\ (q.r.ch = PLUS \/ q.r.ch = MINUS)
        THEN NumLoop(next_spliced(q.s).s, numchars \o <<ch, q.r.ch>>)
        ELSE NumLoop(q.s, Append(numchars, ch))
      : q \in {PS(s)} } : TRUE

\* The loop of ppnumber.
NumLoop(s, numchars) ==
    CHOOSE v \in {
        IF p.r.tag # "Some" THEN [s |-> p.s, text |-> numchars]
        ELSE IF p.r.ch = LowerE \/ p.r.ch = UpperE
        THEN NumLoopExp(next_spliced(p.s).s, p.r.ch, numchars)
        ELSE IF is_ascii_alphanumeric(p.r.ch) \/ p.r.ch = UNDERSCORE \/ p.r.ch = DOT
        THEN NumLoop(next_spliced(p.s).s, Append(numchars, p.r.ch))
        ELSE [s |-> p.s, text |-> numchars]
      : p \in {PS(s)} } : TRUE

\* ppnumber
ppnumber(s) == TextToken(NumLoop(s, <<>>), "Number")

\* The loop of the 'x' branch of escape_sequence.
RECURSIVE HexLoop(_, _)
HexLoop(s, accum) ==
    CHOOSE v \in {
        IF p.r.tag # "Some" THEN [s |-> p.s, ok |-> FALSE, accum |-> accum]
        ELSE IF ~is_ascii_hexdigit(p.r.ch) THEN [s |-> p.s, ok |-> TRUE, accum |-> accum]
        ELSE HexLoop(next_spliced(p.s).s, Append(accum, p.r.ch))
      : p \in {PS(s)} } : TRUE

\* The loop of the '0'..='7' branch of escape_sequence.
RECURSIVE OctLoop(_, _)
OctLoop(s, accum) ==
    CHOOSE v \in {
        IF p.r.tag # "Some" THEN [s |-> p.s, ok |-> FALSE, accum |-> accum]
        ELSE IF ~is_ascii_digit(p.r.ch) /\ p.r.ch # 56 /\ p.r.ch # 57
        THEN [s |-> p.s, ok |-> TRUE, accum |-> accum]
        ELSE OctLoop(next_spliced(p.s).s, Append(accum, p.r.ch))
      : p \in {PS(s)} } : TRUE

\* EscapeAt that leaves the escaped character in the stream.
EscapeAt_keeps_escaped(p, accum) ==
    IF p.r.tag # "Some" THEN [s |-> p.s, ok |-> FALSE, accum |-> accum]
    ELSE IF p.r.ch = LowerX
    THEN HexLoop(next_spliced(p.s).s, Append(accum, LowerX))
    ELSE IF p.r.ch \in 48..55
    THEN OctLoop(p.s, Append(accum, p.r.ch))
    ELSE [s |-> p.s, ok |-> TRUE, accum |-> accum]

\* escape_sequence on the peeked character p, accum ending with the
\* backslash.  The octal branch pushes the digit it peeked without
\* consuming it.
EscapeAt(p, accum) ==
    IF p.r.tag # "Some" THEN [s |-> p.s, ok |-> FALSE, accum |-> accum]
    ELSE IF p.r.ch = LowerX
    THEN HexLoop(next_spliced(p.s).s, Append(accum, LowerX))
    ELSE IF p.r.ch \in 48..55
    THEN OctLoop(p.s, Append(accum, p.r.ch))
    ELSE [s |-> next_spliced(p.s).s, ok |-> TRUE, accum |-> Append(accum, p.r.ch)]

\* escape_sequence, entered after the backslash was consumed.
escape_sequence(s, accum0) ==
    CHOOSE v \in {EscapeAt(p, Append(accum0, BACKSLASH)) : p \in {PS(s)}} : TRUE

RECURSIVE TextLoop(_, _, _, _)

\* The loop of textlit after the backslash was consumed leaving stream s.
TextLoopEscape(s, is_char, pt, chars) ==
    CHOOSE v \in {
        IF e.ok THEN TextLoop(e.s, is_char, pt, e.accum)
        ELSE [s |-> e.s, r |-> Err("unterminated escape sequence", pt)]
      : e \in {escape_sequence(s, chars)} } : TRUE

\* The loop of textlit.
TextLoop(s, is_char, pt, chars) ==
    CHOOSE v \in {
        IF p.r.tag # "Some"
        THEN [s |-> p.s, r |-> Err("unterminated character constant", pt)]
        ELSE IF p.r.ch = LF
        THEN [s |-> p.s, r |-> Err("unterminated character constant", pt)]
        ELSE IF p.r.ch = SQUOTE /\ is_char
        THEN [s |-> next_spliced(p.s).s, r |-> Ok(Tok("CharLiteral", chars))]
        ELSE IF p.r.ch = DQUOTE /\ ~is_char
        THEN [s |-> next_spliced(p.s).s, r |-> Ok(Tok("StringLiteral", chars))]
        ELSE IF p.r.ch = BACKSLASH
        THEN TextLoopEscape(next_spliced(p.s).s, is_char, pt, chars)
        ELSE TextLoop(next_spliced(p.s).s, is_char, pt, Append(chars, p.r.ch))
      : p \in {PS(s)} } : TRUE

\* textlit, entered after the opening quote was consumed.
textlit(s, is_char, pt) == TextLoop(s, is_char, pt, <<>>)

\* The loop of skip_block_comment.
RECURSIVE BlockLoop(_, _)
BlockLoop(s, last_star) ==
    CHOOSE v \in {
        IF n.r.tag # "Some" THEN [s |-> n.s, ok |-> FALSE]
        ELSE IF n.r.ch = STAR THEN BlockLoop(n.s, TRUE)
        ELSE IF n.r.ch = SLASH
        THEN (IF last_star THEN [s |-> n.s, ok |-> TRUE] ELSE BlockLoop(n.s, last_star))
        ELSE BlockLoop(n.s, FALSE)
      : n \in {next_spliced(s)} } : TRUE

\* skip_block_comment that takes the star of the opener for a last star.
skip_block_comment_opener_star(s) == BlockLoop(s, TRUE)

\* skip_block_comment, entered after the opener was consumed.
skip_block_comment(s) == BlockLoop(s, FALSE)

\* skip_line_comment that leaves the newline in the stream.
RECURSIVE skip_line_comment_keeps_newline(_)
skip_line_comment_keeps_newline(s) ==
    CHOOSE v \in {
        IF n.r.tag = "Some" /\ n.r.ch = LF THEN s
        ELSE IF n.r.tag # "Some" THEN next_spliced(n.s).s
        ELSE skip_line_comment_keeps_newline(n.s)
      : n \in {next_spliced(s)} } : TRUE

\* skip_line_comment, entered after the opener was consumed.
RECURSIVE skip_line_comment(_)
skip_line_comment(s) ==
    CHOOSE v \in {
        IF n.r.tag = "Some" /\ n.r.ch = LF THEN n.s
        ELSE IF n.r.tag # "Some" THEN next_spliced(n.s).s
        ELSE skip_line_comment(n.s)
      : n \in {next_spliced(s)} } : TRUE

RECURSIVE lookup_op(_, _)

\* LookupSub that stops at the first node.
LookupSub_first(op, s1) == [s |-> s1, tok |-> op.token]

\* lookup_op after the character of node op was consumed leaving stream s1:
\* the longer match if there is one, else this node's token.
LookupSub(op, s1) ==
    IF DOMAIN op.next = {} THEN [s |-> s1, tok |-> op.token]
    ELSE CHOOSE v \in {
             IF sub.tok # NoTok THEN sub ELSE [s |-> sub.s, tok |-> op.token]
           : sub \in {lookup_op(s1, op.next)} } : TRUE

\* lookup_op: [s |-> stream after, tok |-> the token or NoTok]
lookup_op(s, map) ==
    CHOOSE v \in {
        IF p.r.tag # "Some" THEN [s |-> p.s, tok |-> NoTok]
        ELSE IF p.r.ch \in DOMAIN map
        THEN CHOOSE w \in {LookupSub(map[p.r.ch], s1) : s1 \in {next_spliced(p.s).s}} : TRUE
        ELSE [s |-> p.s, tok |-> NoTok]
      : p \in {PS(s)} } : TRUE

\* OtherToken that returns the character without consuming it.
OtherToken_peeks(s) ==
    CHOOSE v \in {
        IF q.r.tag = "Some"
        THEN [s |-> q.s, r |-> Ok(Tok("Other", <<q.r.ch>>))]
        ELSE [s |-> q.s, r |-> Ok(Eof)]
      : q \in {PS(s)} } : TRUE

\* The last step of next_token: the character that matched nothing.
OtherToken(s) ==
    CHOOSE v \in {
        IF q.r.tag = "Some"
        THEN [s |-> next_spliced(q.s).s, r |-> Ok(Tok("Other", <<q.r.ch>>))]
        ELSE [s |-> q.s, r |-> Ok(Eof)]
      : q \in {PS(s)} } : TRUE

\* The number test without the look past a '.'.
IsNumberStart_no_dot(s, ch) ==
    CHOOSE v \in {
        [s |-> Chk(s, d), is_number |-> d.tag = "Some" /\ is_ascii_digit(d.ch)]
      : d \in {peek_spliced_n(s, 0)} } : TRUE

\* The number test of next_token: a digit, or '.' followed by a digit.
IsNumberStart(s, ch) ==
    CHOOSE v \in {
        [s |-> Chk(s, d), is_number |-> d.tag = "Some" /\ is_ascii_digit(d.ch)]
      : d \in {peek_spliced_n(s, IF ch = DOT THEN 1 ELSE 0)} } : TRUE

\* What next_token returns from a scanning function's outcome x_.
With(x_, em) ==
    CHOOSE v \in {[s |-> x.s, emit |-> em, r |-> x.r] : x \in {x_}} : TRUE

RECURSIVE TokenLoop(_, _)

\* TokenLoopBlock that appends the comment's space also when the comment
\* does not end.
TokenLoopBlock_space(s, pt, em) ==
    CHOOSE v \in {
        IF b.ok THEN TokenLoop(b.s, Append(em, SPACE))
        ELSE [s |-> b.s, emit |-> Append(em, SPACE),
              r |-> Err("unterminated block comment.", pt)]
      : b \in {skip_block_comment(s)} } : TRUE

\* next_token after the comment opener at pt was consumed leaving stream s.
TokenLoopBlock(s, pt, em) ==
    CHOOSE v \in {
        IF b.ok THEN TokenLoop(b.s, Append(em, SPACE))
        ELSE [s |-> b.s, emit |-> em, r |-> Err("unterminated block comment.", pt)]
      : b \in {skip_block_comment(s)} } : TRUE

\* TokenLoopOp that returns the token of a line-comment opener as any
\* other punctuator.
TokenLoopOp_returns_opener(p, s, em) ==
    CHOOSE v \in {
        IF op.tok = Punct("BlockComment") THEN TokenLoopBlock(op.s, p.r.pt, em)
        ELSE IF op.tok # NoTok
        THEN [s |-> op.s, emit |-> em, r |-> Ok(op.tok)]
        ELSE With(OtherToken(op.s), em)
      : op \in {lookup_op(s, OPERATORS)} } : TRUE

\* TokenLoopOp that appends nothing for a line comment.
TokenLoopOp_no_space(p, s, em) ==
    CHOOSE v \in {
        IF op.tok = Punct("BlockComment") THEN TokenLoopBlock(op.s, p.r.pt, em)
        ELSE IF op.tok = Punct("LineComment")
        THEN TokenLoop(skip_line_comment(op.s), em)
        ELSE IF op.tok # NoTok
        THEN [s |-> op.s, emit |-> em, r |-> Ok(op.tok)]
        ELSE With(OtherToken(op.s), em)
      : op \in {lookup_op(s, OPERATORS)} } : TRUE

\* next_token on the character p that starts neither white space, an
\* identifier, a number nor a literal: a punctuator, a comment or Other.
TokenLoopOp(p, s, em) ==
    CHOOSE v \in {
        IF op.tok = Punct("BlockComment") THEN TokenLoopBlock(op.s, p.r.pt, em)
        ELSE IF op.tok = Punct("LineComment")
        THEN TokenLoop(skip_line_comment(op.s), Append(em, SPACE))
        ELSE IF op.tok # NoTok
        THEN [s |-> op.s, emit |-> em, r |-> Ok(op.tok)]
        ELSE With(OtherToken(op.s), em)
      : op \in {lookup_op(s, OPERATORS)} } : TRUE

\* next_token on the character p that is neither white space nor the start
\* of an identifier.
TokenLoopNum(p, em) ==
    CHOOSE v \in {
        IF num.is_number THEN With(ppnumber(num.s), em)
        ELSE IF p.r.ch = SQUOTE
        THEN With(textlit(next_spliced(num.s).s, TRUE, p.r.pt), em)
        ELSE IF p.r.ch = DQUOTE
        THEN With(textlit(next_spliced(num.s).s, FALSE, p.r.pt), em)
        ELSE TokenLoopOp(p, num.s, em)
      : num \in {IsNumberStart(p.s, p.r.ch)} } : TRUE

\* The loop of next_token: [s, emit, r].  White space is consumed with the
\* stream's own next.
TokenLoop(s, em) ==
    CHOOSE v \in {
        IF p.r.tag # "Some" THEN [s |-> p.s, emit |-> em, r |-> Ok(Eof)]
        ELSE IF is_ascii_whitespace(p.r.ch)
        THEN TokenLoop(source_next(p.s).s, Append(em, p.r.ch))
        ELSE IF is_ascii_alphabetic(p.r.ch) \/ p.r.ch = UNDERSCORE
        THEN With(identifier(p.s), em)
        ELSE TokenLoopNum(p, em)
      : p \in {PS(s)} } : TRUE

\* next_token that ends the trivia with a newline when it returns Eof.
next_token_eof_newline(s, em) ==
    CHOOSE v \in {
        IF t.s.panic THEN [t EXCEPT !.r = Panic]
        ELSE IF t.r = Ok(Eof) THEN [t EXCEPT !.emit = Append(t.emit, LF)]
        ELSE t
      : t \in {TokenLoop(s, em)} } : TRUE

\* next_token(source, emit): the stream and the buffer after the call, and
\* the value returned (Panic if the call did not return).
next_token(s, em) ==
    CHOOSE v \in {
        IF t.s.panic THEN [t EXCEPT !.r = Panic] ELSE t
      : t \in {TokenLoop(s, em)} } : TRUE

RECURSIVE LexAll(_, _)

\* The results from the call that returned t on.
LexAllFrom(t) ==
    IF t.r = Ok(Eof) \/ t.r = Panic THEN [out |-> <<t.r>>, emit |-> t.emit]
    ELSE CHOOSE v \in {
             [out |-> <<t.r>> \o rest.out, emit |-> rest.emit]
           : rest \in {LexAll(t.s, t.emit)} } : TRUE

\* The results of calling next_token on stream s with buffer em until a call
\* returns Eof (or does not return), and the buffer at that point.
LexAll(s, em) == CHOOSE v \in {LexAllFrom(t) : t \in {next_token(s, em)}} : TRUE

\* A stream holding the single file text, as push_data builds it.
OneFile(text) == push_data(NewSource, "abc", text)

(***************************************************************************)
(* The stream as the state of the model.                                   *)
(***************************************************************************)
Src == [files |-> files, iters |-> iters, switched |-> switched, panic |-> panicked]

SetSrc(s) ==
    /\ files' = s.files
    /\ iters' = s.iters
    /\ switched' = s.switched

\* Bounds of the model: the characters loaded in all files together, the
\* number of push calls, and the depth of the lookahead calls.
MaxChars == 3
MaxPush == 2
MaxPeek == 4

RECURSIVE SeqsUpTo(_, _)
SeqsUpTo(A, n) ==
    IF n = 0 THEN {<<>>}
    ELSE LET shorter == SeqsUpTo(A, n - 1)
         IN  shorter \cup {Append(t, c) : t \in {u \in shorter : Len(u) = n - 1}, c \in A}

\* File names and file texts of the character-stream specification.
Names == {"abc", "def"}
DataName == "abc"
StreamChars == {97, LF, CR}
StreamTexts == SeqsUpTo(StreamChars, MaxChars)

RECURSIVE Loaded(_)
Loaded(fs) == IF fs = <<>> THEN 0 ELSE Len(Last(fs).text) + Loaded(Front(fs))

Init ==
    /\ files = NewSource.files
    /\ iters = NewSource.iters
    /\ switched = NewSource.switched
    /\ emit = <<>>
    /\ panicked = FALSE
    /\ last = [op |-> "new"]
    /\ out = <<>>
    /\ fresh = FALSE
    /\ pushes = 0

\* source.push_data(name, text)
PushData(name, text) ==
    /\ ~panicked
    /\ pushes < MaxPush
    /\ Loaded(files) + Len(text) <= MaxChars
    /\ SetSrc(push_data(Src, name, text))
    /\ last' = [op |-> "push_data", ok |-> TRUE]
    /\ fresh' = TRUE
    /\ pushes' = pushes + 1
    /\ UNCHANGED <<emit, panicked, out>>

\* source.push_file(name), the file system answering read
PushFile(name, read) ==
    /\ ~panicked
    /\ pushes < MaxPush
    /\ read.ok => Loaded(files) + Len(read.text) <= MaxChars
    /\ \E p \in {push_file(Src, name, read)} :
           /\ SetSrc(p.s)
           /\ last' = IF p.ok THEN [op |-> "push_file", ok |-> TRUE]
                      ELSE [op |-> "push_file", ok |-> FALSE, err |-> p.err]
           /\ fresh' = (fresh \/ p.ok)
    /\ pushes' = pushes + 1
    /\ UNCHANGED <<emit, panicked, out>>

\* source.next()
NextChar ==
    /\ ~panicked
    /\ \E n \in {source_next(Src)} :
           /\ SetSrc(n.s)
           /\ panicked' = n.s.panic
           /\ last' = [op |-> "next", r |-> n.r, was_fresh |-> fresh]
           /\ fresh' = IF n.r.tag = "Some" THEN Len(n.s.iters) # Len(iters) ELSE fresh
    /\ UNCHANGED <<emit, out, pushes>>

\* source.peek_n(k) written as if it advanced the pointers it looks past.
PeekN_consumes(k) ==
    /\ ~panicked
    /\ panicked' = (peek_n(Src, k).tag = "Panic")
    /\ last' = [op |-> "peek_n", k |-> k, r |-> peek_n(Src, k)]
    /\ SetSrc(IF k = 0 THEN Src ELSE source_next(Src).s)
    /\ UNCHANGED <<emit, out, fresh, pushes>>

\* source.peek(): takes &self, so nothing of the stream changes; the value
\* returned is peek(Src) (PanicChar if an assertion failed).
Peek ==
    /\ ~panicked
    /\ panicked' = (peek(Src).tag = "Panic")
    /\ last' = [op |-> "peek", r |-> peek(Src)]
    /\ UNCHANGED <<files, iters, switched, emit, out, fresh, pushes>>

\* source.peek_n(k): takes &self as well; the value returned is peek_n(Src, k).
PeekN(k) ==
    /\ ~panicked
    /\ panicked' = (peek_n(Src, k).tag = "Panic")
    /\ last' = [op |-> "peek_n", k |-> k, r |-> peek_n(Src, k)]
    /\ UNCHANGED <<files, iters, switched, emit, out, fresh, pushes>>

Reads == {[ok |-> FALSE]} \cup {[ok |-> TRUE, text |-> t] : t \in StreamTexts}

Next ==
    \/ \E text \in StreamTexts : PushData(DataName, text)
    \/ \E name \in Names, read \in Reads : PushFile(name, read)
    \/ NextChar
    \/ Peek
    \/ \E k \in 0..MaxPeek : PeekN(k)

Spec == Init /\ [][Next]_vars

(***************************************************************************)
(* The scanner: next_token called on the stream.                           *)
(***************************************************************************)
\* Bounds of the scanner specification: the characters loaded in all files
\* together and the number of push calls.
MaxLexChars == 3
MaxLexPush == 2

\* source.push_data("abc", text) by a caller of next_token, for a text of texts
LexPush(texts, maxPush, maxChars) ==
    /\ ~panicked
    /\ pushes < maxPush
    /\ \E text \in texts :
           /\ Loaded(files) + Len(text) <= maxChars
           /\ SetSrc(push_data(Src, DataName, text))
    /\ last' = [op |-> "push_data", ok |-> TRUE]
    /\ out' = <<>>
    /\ fresh' = TRUE
    /\ pushes' = pushes + 1
    /\ UNCHANGED <<emit, panicked>>

\* source.push_file(name) by a caller of next_token, for a name of names,
\* the file system answering with one of reads
LexPushFile(names, reads, maxPush, maxChars) ==
    /\ ~panicked
    /\ pushes < maxPush
    /\ \E name \in names, read \in reads :
           /\ read.ok => Loaded(files) + Len(read.text) <= maxChars
           /\ \E p \in {push_file(Src, name, read)} :
                  /\ SetSrc(p.s)
                  /\ last' = IF p.ok THEN [op |-> "push_file", ok |-> TRUE]
                             ELSE [op |-> "push_file", ok |-> FALSE, err |-> p.err]
                  /\ fresh' = (fresh \/ p.ok)
    /\ out' = <<>>
    /\ pushes' = pushes + 1
    /\ UNCHANGED <<emit, panicked>>

\* next_token(&mut source, &mut emit).  Repeated Eof results are recorded once.
NextToken ==
    /\ ~panicked
    /\ \E t \in {next_token(Src, emit)} :
           /\ SetSrc(t.s)
           /\ panicked' = (t.r = Panic)
           /\ emit' = t.emit
           /\ last' = [op |-> "next_token", r |-> t.r]
           /\ out' = IF t.r = Ok(Eof) /\ out # <<>> /\ Last(out) = Ok(Eof)
                     THEN out ELSE Append(out, t.r)
    /\ UNCHANGED <<fresh, pushes>>

\* Texts that reach every branch of next_token: whitespace, a splice, an
\* identifier, a number, a literal, both comments, a punctuator, Other.
LexChars == {SPACE, LF, BACKSLASH, 97, 49, SQUOTE, SLASH, STAR}
LexTexts == SeqsUpTo(LexChars, MaxLexChars)
LexReads == {[ok |-> FALSE]} \cup {[ok |-> TRUE, text |-> t] : t \in LexTexts}

LexNext ==
    \/ LexPush(LexTexts, MaxLexPush, MaxLexChars)
    \/ LexPushFile(Names, LexReads, MaxLexPush, MaxLexChars)
    \/ NextToken

LexSpec == Init /\ [][LexNext]_vars

\* The caller keeps calling next_token.
LexFair == LexSpec /\ WF_vars(NextToken)

(***************************************************************************)
(* The scanner on one file of punctuator characters.                       *)
(***************************************************************************)
MaxPunctLen == 3

\* # + - * / % = ! < > ~ & | ^ [ ] ( ) { } . ; ? : ,
PunctChars ==
    {35, 43, 45, 42, 47, 37, 61, 33, 60, 62, 126, 38, 124, 94,
     91, 93, 40, 41, 123, 125, 46, 59, 63, 58, 44}
PunctTexts == SeqsUpTo(PunctChars, MaxPunctLen)

PunctNext ==
    \/ LexPush(PunctTexts, 1, MaxPunctLen)
    \/ NextToken

PunctSpec == Init /\ [][PunctNext]_vars

(***************************************************************************)
(* The scanner on one file with splices.  A text is made of at most        *)
(* MaxPieces pieces, a piece being one character or one splice.            *)
(***************************************************************************)
MaxPieces == 5

RECURSIVE Concats(_, _)
Concats(P, n) ==
    IF n = 0 THEN {<<>>}
    ELSE LET shorter == Concats(P, n - 1)
         IN  shorter \cup {t \o p : t \in shorter, p \in P}

Splice == <<BACKSLASH, LF>>
SplicePieces == {Splice, <<BACKSLASH>>, <<LF>>, <<SPACE>>, <<61>>, <<SLASH>>, <<STAR>>}
SpliceTexts == Concats(SplicePieces, MaxPieces)

SpliceNext ==
    \/ LexPush(SpliceTexts, 1, 2 * MaxPieces)
    \/ NextToken

SpliceSpec == Init /\ [][SpliceNext]_vars

(***************************************************************************)
(* The scanner on one file of literals.                                    *)
(***************************************************************************)
MaxLitLen == 5

\* ' " \ 0 x a and the newline
LitChars == {SQUOTE, DQUOTE, BACKSLASH, 48, LowerX, 97, LF}
LitTexts == SeqsUpTo(LitChars, MaxLitLen)

LitNext ==
    \/ LexPush(LitTexts, 1, MaxLitLen)
    \/ NextToken

LitSpec == Init /\ [][LitNext]_vars

(***************************************************************************)
(* The scanner on one file of dots, digits and letters, with splices.      *)
(***************************************************************************)
MaxDotPieces == 6

\* a splice, . 1 e -
DotPieces == {Splice, <<DOT>>, <<49>>, <<LowerE>>, <<MINUS>>}
DotTexts == Concats(DotPieces, MaxDotPieces)

DotNext ==
    \/ LexPush(DotTexts, 1, 2 * MaxDotPieces)
    \/ NextToken

DotSpec == Init /\ [][DotNext]_vars

(***************************************************************************)
(* The scanner on one file with characters that start no token.            *)
(***************************************************************************)
MaxOtherPieces == 5

\* a splice, \ $ newline , a
OtherPieces == {Splice, <<BACKSLASH>>, <<36>>, <<LF>>, <<44>>, <<97>>}
OtherTexts == Concats(OtherPieces, MaxOtherPieces)

OtherNext ==
    \/ LexPush(OtherTexts, 1, 2 * MaxOtherPieces)
    \/ NextToken

OtherSpec == Init /\ [][OtherNext]_vars

(***************************************************************************)
(* The scanner on one file with digits, exponent letters and signs.        *)
(***************************************************************************)
MaxNumPieces == 5

\* a splice, 1 2 e E + -
NumPieces == {Splice, <<49>>, <<50>>, <<LowerE>>, <<UpperE>>, <<PLUS>>, <<MINUS>>}
NumTexts == Concats(NumPieces, MaxNumPieces)

NumNext ==
    \/ LexPush(NumTexts, 1, 2 * MaxNumPieces)
    \/ NextToken

NumSpec == Init /\ [][NumNext]_vars

(***************************************************************************)
(* The scanner on one file of identifiers, numbers, character literals and *)
(* punctuators, with splices.                                              *)
(***************************************************************************)
MaxMunchPieces == 5

\* a splice, a 1 _ + - '
MunchPieces ==
    {Splice, <<97>>, <<49>>, <<UNDERSCORE>>, <<PLUS>>, <<MINUS>>, <<SQUOTE>>}
MunchTexts == Concats(MunchPieces, MaxMunchPieces)

MunchNext ==
    \/ LexPush(MunchTexts, 1, 2 * MaxMunchPieces)
    \/ NextToken

MunchSpec == Init /\ [][MunchNext]_vars

(***************************************************************************)
(* The scanner on files pushed with push_data only, of texts that end in a *)
(* backslash, a splice or a dot.                                           *)
(***************************************************************************)
MaxEndPieces == 3

\* a splice, \ . 1 a
EndPieces == {Splice, <<BACKSLASH>>, <<DOT>>, <<49>>, <<97>>}
EndTexts == Concats(EndPieces, MaxEndPieces)

EndNext ==
    \/ LexPush(EndTexts, MaxLexPush, 4 * MaxEndPieces)
    \/ NextToken

EndSpec == Init /\ [][EndNext]_vars

(***************************************************************************)
(* Properties of the character stream, checked under Spec.                 *)
(***************************************************************************)

\* The outcome of the (k+1)-th of k+1 successive next calls from stream s.
RECURSIVE NextTimes(_, _)
NextTimes(s, k) == IF k = 0 THEN s ELSE NextTimes(source_next(s).s, k - 1)

NthNext(s, k) ==
    LET n == source_next(NextTimes(s, k))
    IN  IF n.s.panic THEN PanicChar ELSE n.r

\* The characters, with their Positions, that successive next calls deliver
\* from stream s until it is exhausted.
RECURSIVE Drain(_)
Drain(s) ==
    LET n == source_next(s)
    IN  IF n.r.tag # "Some" THEN <<>>
        ELSE <<[ch |-> n.r.ch, pt |-> n.r.pt]>> \o Drain(n.s)

Exhausted(sp) == ~(sp.next < Len(TextOf(files, sp)))

\* C3: after any sequence of push_file, push_data, peek, peek_n and next
\* calls the stack is empty or every pointer on it has an offset smaller
\* than the length of its file's text, and no assertion has failed.
C3_StackInvariant ==
    /\ \A i \in 1..Len(iters) : ~Exhausted(iters[i])
    /\ ~panicked

\* C8: on a stream that is not exhausted, peek_n(k) has the outcome of the
\* (k+1)-th of k+1 successive next calls (character, Position and switched
\* flag, or nothing), for every k up to MaxPeek, and peek_n(0) is peek.
C8_PeekNIsNthNext ==
    (~panicked /\ iters # <<>>) =>
        /\ \A k \in 0..MaxPeek : peek_n(Src, k) = NthNext(Src, k)
        /\ peek_n(Src, 0) = peek(Src)

\* C8 witness: a lookahead of one character that crosses the pop back to a
\* parent file (the character is the parent's, flagged switched), and a
\* deeper one that runs off the end of the whole stack.
C8_Witness ==
    /\ ~panicked
    /\ Len(iters) = 2
    /\ peek_n(Src, 1).tag = "Some"
    /\ peek_n(Src, 1).switched
    /\ peek_n(Src, 1).pt.file = iters[1].file
    /\ iters[1].file # iters[2].file
    /\ iters[1].next > 0
    /\ peek_n(Src, 3).tag = "None"

\* C9: when a non-empty file is pushed, the next calls that follow deliver
\* all its characters in order and then exactly the characters (with their
\* Positions) that were still to come before the push.
C9_Pushed ==
    /\ ~panicked
    /\ last'.op \in {"push_data", "push_file"}
    /\ last'.ok
    /\ Len(iters') = Len(iters) + 1
    /\ Len(TextOf(files', Last(iters'))) > 0
    /\ \A i \in 1..Len(iters) : ~Exhausted(iters[i])

C9_NestingOrder ==
    [][C9_Pushed =>
         Drain(Src') = Drain([Src' EXCEPT !.iters = <<Last(iters')>>]) \o Drain(Src)]_vars

\* C9 witness: the nested file is exhausted and next has just delivered a
\* character of the parent from the middle of the parent's text.
C9_Witness ==
    /\ last.op = "next"
    /\ last.r.tag = "Some"
    /\ last.r.switched
    /\ Len(files) = 2
    /\ last.r.pt.file = 0
    /\ last.r.pt # Point(0, 1, 1)
    /\ pushes = 2

\* C10: a character returned by next is flagged switched exactly when the
\* stack changed (a push, or a pop by exhaustion) since the last character
\* returned; peek reports the flag the next call of next returns.
C10_SwitchedFlag ==
    /\ (last.op = "next" /\ last.r.tag = "Some") => (last.r.switched = last.was_fresh)
    /\ (~panicked /\ peek(Src).tag = "Some") =>
           /\ peek(Src).switched = source_next(Src).r.switched
           /\ peek(Src).switched = fresh

\* C10 witness: next has returned an unflagged character and its file was
\* exhausted by that, so the character to come (the parent's) is flagged.
C10_Witness ==
    /\ last.op = "next"
    /\ last.r.tag = "Some"
    /\ ~last.r.switched
    /\ iters # <<>>
    /\ Last(iters).file # last.r.pt.file
    /\ peek(Src).switched

\* The logical characters of text t: CR, LF, CR LF and LF CR are one newline.
RECURSIVE Normalized(_)
Normalized(t) ==
    IF t = <<>> THEN <<>>
    ELSE IF t[1] \in {CR, LF}
    THEN IF Len(t) >= 2 /\ t[2] \in {CR, LF} /\ t[2] # t[1]
         THEN <<LF>> \o Normalized(SubSeq(t, 3, Len(t)))
         ELSE <<LF>> \o Normalized(Tail(t))
    ELSE <<t[1]>> \o Normalized(Tail(t))

\* The text that pointer sp has not consumed yet.
RestOf(fs, sp) == SubSeq(TextOf(fs, sp), sp.next + 1, Len(TextOf(fs, sp)))

\* The step is a next call that returned a character.
NextReturned ==
    /\ last'.op = "next"
    /\ last'.r.tag = "Some"
    /\ ~panicked'
    /\ iters' # iters

\* What the innermost pointer of the step's first state has left after the step.
RestAfter == IF Len(iters') = Len(iters) THEN RestOf(files', Last(iters')) ELSE <<>>

C11_OneNewlinePerCall ==
    [][NextReturned =>
         /\ last'.r.ch = Head(Normalized(RestOf(files, Last(iters))))
         /\ Normalized(RestAfter) = Tail(Normalized(RestOf(files, Last(iters))))]_vars

C11_PeekIsNormalized ==
    (~panicked /\ peek(Src).tag = "Some") => peek(Src).ch = source_next(Src).r.ch

\* C11: each next call returns the first logical character of what its file
\* has left (CR, LF, CR LF and LF CR each being one newline) and consumes
\* exactly that character; peek returns the character next will return.
C11_NewlineNormalization == C11_OneNewlinePerCall /\ []C11_PeekIsNormalized

\* C11 witness: the text CR LF CR has been delivered as two newlines, the
\* second one on line 2.
C11_Witness ==
    /\ last.op = "next"
    /\ last.r.tag = "Some"
    /\ last.r.ch = LF
    /\ last.r.pt = Point(0, 2, 1)
    /\ files = <<SourceFile(DataName, <<CR, LF, CR>>)>>
    /\ iters = <<>>

\* The number of newlines in the logical characters n.
RECURSIVE Newlines(_)
Newlines(n) ==
    IF n = <<>> THEN 0 ELSE (IF Last(n) = LF THEN 1 ELSE 0) + Newlines(Front(n))

\* The number of logical characters of n after its last newline.
RECURSIVE SinceNewline(_)
SinceNewline(n) ==
    IF n = <<>> THEN 0 ELSE IF Last(n) = LF THEN 0 ELSE 1 + SinceNewline(Front(n))

\* The logical characters consumed through pointer sp.
ConsumedBy(fs, sp) == Normalized(SubSeq(TextOf(fs, sp), 1, sp.next))

\* C12: a character returned by next carries the file index of the pointer
\* it was read through, line = 1 + the newlines consumed through that
\* pointer before it, and column = 1 + the characters consumed through it
\* since the last newline; line and column are at least 1.
C12_PositionTracking ==
    [][NextReturned =>
         /\ last'.r.pt =
                Point(Last(iters).file,
                      1 + Newlines(ConsumedBy(files, Last(iters))),
                      1 + SinceNewline(ConsumedBy(files, Last(iters))))
         /\ last'.r.pt.line >= 1
         /\ last'.r.pt.col >= 1]_vars

\* C12 witness: the second character after a newline was returned, at
\* line 2, column 2.
C12_Witness ==
    /\ last.op = "next"
    /\ last.r.tag = "Some"
    /\ last.r.pt = Point(0, 2, 2)
    /\ TextOf(files, [file |-> 0])[1] \in {CR, LF}

\* C15: the list of loaded files holds at most one entry per name, and a
\* push (push_file or push_data) of a name that is loaded adds no entry;
\* push_file then creates a pointer at offset 0, line 1, column 1 whose file
\* index is the index the name was given at its first load.
C15_LoadedOnce ==
    /\ \A i, j \in 1..Len(files) : files[i].name = files[j].name => i = j
    /\ \A name \in Names :
           FindFile(files, name) >= 0 =>
               /\ push_file(Src, name, [ok |-> FALSE]).ok
               /\ push_file(Src, name, [ok |-> FALSE]).s.files = files
               /\ push_file(Src, name, [ok |-> FALSE]).s.iters =
                      Append(iters, [file |-> FindFile(files, name), next |-> 0,
                                     next_loc |-> Point(FindFile(files, name), 1, 1)])
               /\ \A text \in StreamTexts : push_data(Src, name, text).files = files

\* C16: a push_file call that fails to read its file returns an error
\* without a Position and leaves the loaded files, the stack of active files
\* and the switched marker as they were.
C16_FailedPushFile ==
    [][(last'.op = "push_file" /\ ~last'.ok /\ pushes' # pushes) =>
         /\ last'.err.loc = [tag |-> "None"]
         /\ UNCHANGED <<files, iters, switched>>]_vars

\* C16 witness: a push_file failed while a file was being read, after the
\* switch to that file had been reported.
C16_Witness ==
    /\ last.op = "push_file"
    /\ ~last.ok
    /\ Len(files) = 1
    /\ iters # <<>>
    /\ Last(iters).next > 0
    /\ ~switched

\* C23: a peek or peek_n call leaves the loaded files, every pointer of
\* the stack and the switched marker as they were, so the next call after
\* it returns what it would have returned before it.
C23_LookaheadFrame ==
    [][(last'.op \in {"peek", "peek_n"}) =>
         /\ UNCHANGED <<files, iters, switched>>
         /\ panicked' \/ source_next([files |-> files', iters |-> iters',
                                      switched |-> switched', panic |-> FALSE])
                            = source_next(Src)]_vars

\* C23 witness: peek_n looked from the included file into the including
\* file, past the end of the first, while the switch to the included file
\* was still to be reported.
C23_Witness ==
    /\ last.op = "peek_n"
    /\ last.k = 2
    /\ last.r.tag = "Some"
    /\ Len(iters) = 2
    /\ last.r.pt.file # Last(iters).file
    /\ switched
    /\ ~panicked

\* C24: a peek_n(k) call on a stream whose stack is empty returns nothing,
\* for k = 0 and for every k > 0, and does not stop the program.
C24_PeekNExhausted ==
    (last.op = "peek_n" /\ iters = <<>>) => (last.r = NoneChar /\ ~panicked)

\* Stream s is the state of the model after a zero-length file was pushed:
\* the pointers are those of before, the transition is flagged and shows on
\* the next character, and a stream that was exhausted still is.
AsBeforePush(s) ==
    /\ s.iters = iters
    /\ s.switched
    /\ source_next(s).r.tag = "Some" => source_next(s).r.switched
    /\ iters = <<>> =>
           /\ peek(s) = NoneChar
           /\ source_next(s).r = NoneChar
           /\ ~source_next(s).s.panic

\* push_file(name) pushes a zero-length file when the file system answers
\* with an empty text: the loaded text under that name, or the text read.
PushesEmptyFile(name) ==
    FindFile(files, name) >= 0 => files[FindFile(files, name) + 1].text = <<>>

\* C32: on a stream that satisfies the stack invariant, pushing a
\* zero-length file with push_data or push_file leaves the pointers of
\* before, flags the transition, and leaves an exhausted stream exhausted.
C32_ZeroLengthPush ==
    C3_StackInvariant =>
        /\ AsBeforePush(push_data(Src, DataName, <<>>))
        /\ \A name \in Names :
               PushesEmptyFile(name) =>
                   AsBeforePush(push_file(Src, name, [ok |-> TRUE, text |-> <<>>]).s)

\* The Position pt names a loaded file, and get_filename resolves it to that
\* file's name.
Resolves(pt) ==
    /\ pt.file < Len(files)
    /\ get_filename(Src, pt.file) = [tag |-> "Some", name |-> files[pt.file + 1].name]

\* The Positions the stream produces in this state: in the character of the
\* last peek, peek_n or next call, in the error of the last next_token call,
\* and in the characters a peek_n call would return now.
C33_PositionsResolve ==
    /\ (last.op \in {"peek", "peek_n", "next"} /\ last.r.tag = "Some") => Resolves(last.r.pt)
    /\ (last.op = "next_token" /\ last.r.tag = "Err") => Resolves(last.r.pt)
    /\ \A k \in 0..MaxPeek : peek_n(Src, k).tag = "Some" => Resolves(peek_n(Src, k).pt)
    /\ source_next(Src).r.tag = "Some" => Resolves(source_next(Src).r.pt)

\* get_filename(i) returns nothing exactly when i is not smaller than the
\* number of loaded files.
C33_GetFilename ==
    \A i \in 0..(Len(files) + 1) :
        (get_filename(Src, i).tag = "None") <=> (i >= Len(files))

\* Every step leaves the loaded files as they are or adds files after them.
C33_FilesGrow ==
    [][Len(files') >= Len(files) /\ SubSeq(files', 1, Len(files)) = files]_vars

\* C33: every Position the stream produces names a loaded file that
\* get_filename resolves, get_filename returns nothing exactly for the
\* indexes that are not smaller than the number of loaded files, and the
\* list of loaded files only grows, no entry changing.
C33_PositionsNameFiles ==
    /\ [](C33_PositionsResolve /\ C33_GetFilename)
    /\ C33_FilesGrow

\* C33 witness: a next_token call returned an error located in the second
\* loaded file.
C33_Witness ==
    /\ last.op = "next_token"
    /\ last.r.tag = "Err"
    /\ last.r.pt.file = 1
    /\ Len(files) = 2
    /\ get_filename(Src, 1).tag = "Some"

\* This step is a next call or a next_token call.
Advances == last'.op \in {"next", "next_token"} /\ pushes' = pushes

\* C35: a next or next_token call adds no pointer and leaves the loaded files
\* alone; the pointers that stay below the top are unchanged, the pointers a
\* next call removes from below the old top were exhausted, and the pointer
\* on top afterwards is that of the same file, at the same place or further
\* (at the same place when a single next call uncovered it).
C35_OnlyInnermostMoves ==
    [][Advances =>
         /\ files' = files
         /\ Len(iters') <= Len(iters)
         /\ \A i \in 1..(Len(iters') - 1) : iters'[i] = iters[i]
         /\ last'.op = "next" =>
                \A i \in (Len(iters') + 1)..(Len(iters) - 1) : Exhausted(iters[i])
         /\ iters' # <<>> =>
                /\ Last(iters').file = iters[Len(iters')].file
                /\ Last(iters').next_loc.file = iters[Len(iters')].next_loc.file
                /\ Last(iters').next >= iters[Len(iters')].next
                /\ (last'.op = "next" /\ Len(iters') < Len(iters)) =>
                       Last(iters') = iters[Len(iters')]
                /\ (last'.op = "next" /\ Len(iters') = Len(iters) /\ ~panicked') =>
                       Last(iters').next > Last(iters).next]_vars

\* C35 witness: a next call returned the only character of the second file
\* and uncovered the pointer of the first file where it was left, after its
\* first character.
C35_Witness ==
    /\ last.op = "next"
    /\ last.r.tag = "Some"
    /\ last.r.pt.file = 1
    /\ Len(files) = 2
    /\ Len(iters) = 1
    /\ iters[1].file = 0
    /\ iters[1].next = 1
    /\ iters[1].next_loc = Point(0, 1, 2)

(***************************************************************************)
(* Properties of the scanner.                                              *)
(***************************************************************************)

\* The characters of the stack that no call has consumed yet.
RECURSIVE Remaining(_, _)
Remaining(fs, its) ==
    IF its = <<>> THEN 0
    ELSE Len(TextOf(fs, Last(its))) - Last(its).next + Remaining(fs, Front(its))

EofReturned == last.op = "next_token" /\ last.r = Ok(Eof)

\* next_token has returned Eof on a stream that was given exactly one file.
OneFileDone == EofReturned /\ Len(files) = 1 /\ pushes = 1

\* A text with every backslash-newline pair deleted.
RECURSIVE Despliced(_)
Despliced(t) ==
    IF t = <<>> THEN <<>>
    ELSE IF Len(t) >= 2 /\ t[1] = BACKSLASH /\ t[2] = LF
    THEN Despliced(SubSeq(t, 3, Len(t)))
    ELSE <<t[1]>> \o Despliced(Tail(t))

\* Results with their positions ignored.
Unpositioned(rs) == [i \in 1..Len(rs) |-> [rs[i] EXCEPT !.pt = NoPoint]]

C1_Progress ==
    [][(last'.op = "next_token" /\ last'.r # Ok(Eof))
           => Remaining(files', iters') < Remaining(files, iters)]_vars

\* C1: whatever files are on the stack, every next_token call that does not
\* return Eof consumes at least one character, and the calls reach one that
\* returns Eof.
C1_ReachesEof == C1_Progress /\ []<>EofReturned

\* C2: once next_token has returned Eof, a further call returns Ok(Eof)
\* and changes neither the stream nor the emit buffer.
C2_EofAbsorbing ==
    EofReturned => next_token(Src, emit) = [s |-> Src, emit |-> emit, r |-> Ok(Eof)]

\* C2 witness: Eof was returned after a token and some trivia.
C2_Witness ==
    /\ EofReturned
    /\ Len(out) >= 2
    /\ emit # <<>>

\* The punctuator spellings and the token named for each.
Punctuators ==
    { <<<<35>>, "Hash">>, <<<<43>>, "Add">>, <<<<45>>, "Subtract">>,
      <<<<42>>, "Star">>, <<<<47>>, "Divide">>, <<<<37>>, "Mod">>,
      <<<<43, 43>>, "Increment">>, <<<<45, 45>>, "Decrement">>,
      <<<<61, 61>>, "Equal">>, <<<<33, 61>>, "NotEqual">>,
      <<<<60>>, "Less">>, <<<<60, 61>>, "LessEqual">>,
      <<<<62>>, "Greater">>, <<<<62, 61>>, "GreaterEqual">>,
      <<<<33>>, "LogicalNot">>, <<<<38, 38>>, "LogicalAnd">>,
      <<<<124, 124>>, "LogicalOr">>, <<<<126>>, "BitNot">>,
      <<<<38>>, "Ampersand">>, <<<<124>>, "BitOr">>, <<<<94>>, "BitXor">>,
      <<<<60, 60>>, "ShiftLeft">>, <<<<62, 62>>, "ShiftRight">>,
      <<<<61>>, "Assign">>, <<<<43, 61>>, "AddAssign">>,
      <<<<45, 61>>, "SubtractAssign">>, <<<<42, 61>>, "MultiplyAssign">>,
      <<<<47, 61>>, "DivideAssign">>, <<<<37, 61>>, "ModAssign">>,
      <<<<38, 61>>, "AndAssign">>, <<<<124, 61>>, "OrAssign">>,
      <<<<94, 61>>, "XorAssign">>, <<<<60, 60, 61>>, "LeftShiftAssign">>,
      <<<<62, 62, 61>>, "RightShiftAssign">>,
      <<<<91>>, "LeftBracket">>, <<<<93>>, "RightBracket">>,
      <<<<40>>, "LeftParen">>, <<<<41>>, "RightParen">>,
      <<<<123>>, "LeftBrace">>, <<<<125>>, "RightBrace">>,
      <<<<46>>, "Dot">>, <<<<45, 62>>, "Arrow">>, <<<<59>>, "Semicolon">>,
      <<<<63>>, "Question">>, <<<<58>>, "Colon">>, <<<<44>>, "Comma">> }

\* C4: an input that is exactly a punctuator spelling gives the token named
\* for it and then Eof, and an input of punctuator characters that is not a
\* spelling is not returned as a single punctuator token.
C4_PunctuatorSpellings ==
    OneFileDone =>
        /\ \A p \in Punctuators :
               files[1].text = p[1] => out = <<Ok(Punct(p[2])), Ok(Eof)>>
        /\ files[1].text \notin {p[1] : p \in Punctuators} =>
               ~(/\ Len(out) = 2
                 /\ out[1].tag = "Ok"
                 /\ out[1].tok.kind \in {p[2] : p \in Punctuators})

\* C5: the characters appended to the emit buffer for a single-file input
\* are those appended for the input with every backslash-newline pair deleted.
C5_SpliceNoTrivia ==
    OneFileDone => emit = LexAll(OneFile(Despliced(files[1].text)), <<>>).emit

\* C6 as stated: the results for a single-file input (positions ignored)
\* are the results for the input with every backslash-newline pair deleted.
C6_SplicesInvisible ==
    OneFileDone =>
        Unpositioned(out) =
            Unpositioned(LexAll(OneFile(Despliced(files[1].text)), <<>>).out)

\* Deleting the pairs of text t leaves no backslash followed by a newline.
NoNewPair(t) == Despliced(Despliced(t)) = Despliced(t)

\* C6: the results for a single-file input (positions ignored) are the
\* results for the input with every backslash-newline pair deleted, when
\* the deletion does not bring a backslash and a newline together.
C6_SplicesInvisibleOnce ==
    (OneFileDone /\ NoNewPair(files[1].text)) =>
        Unpositioned(out) =
            Unpositioned(LexAll(OneFile(Despliced(files[1].text)), <<>>).out)

\* C6 witness: a block comment whose terminator is split by a splice has
\* been skipped, leaving one space of trivia and no token.
C6_Witness ==
    /\ OneFileDone
    /\ files[1].text = <<SLASH, STAR, STAR, BACKSLASH, LF, SLASH>>
    /\ out = <<Ok(Eof)>>
    /\ emit = <<SPACE>>

\* The index of the quote q that closes a literal, scanning text d from
\* index i: a backslash takes the character after it along.
RECURSIVE Closing(_, _, _)
Closing(d, q, i) ==
    IF i > Len(d) THEN 0
    ELSE IF d[i] = q THEN i
    ELSE IF d[i] = BACKSLASH THEN Closing(d, q, i + 2)
    ELSE Closing(d, q, i + 1)

\* The characters between the opening quote d[1] and its closing quote.
Between(d) == SubSeq(d, 2, Closing(d, d[1], 2) - 1)

\* C7: the text of a literal returned for an input that starts with a quote
\* is the characters between that quote and the matching closing quote
\* (splices removed), each once and in order.
C7_LiteralVerbatim ==
    (/\ last.op = "next_token"
     /\ Len(files) = 1
     /\ Len(out) = 1
     /\ out[1].tag = "Ok"
     /\ out[1].tok.kind \in {"CharLiteral", "StringLiteral"}
     /\ Despliced(files[1].text)[1] \in {SQUOTE, DQUOTE})
        => out[1].tok.text = Between(Despliced(files[1].text))

\* How the literal opened by the quote q ends, scanning the genuine text d
\* from index i: a backslash takes the character after it along unless that
\* character is a newline.
RECURSIVE LiteralEnd(_, _, _)
LiteralEnd(d, q, i) ==
    IF i > Len(d) THEN "eof"
    ELSE IF d[i] = LF THEN "newline"
    ELSE IF d[i] = q THEN "closed"
    ELSE IF d[i] = BACKSLASH /\ i < Len(d) /\ d[i + 1] # LF THEN LiteralEnd(d, q, i + 2)
    ELSE LiteralEnd(d, q, i + 1)

\* The index of the first character of text t from index i on that is not
\* part of a splice.
RECURSIVE FirstGenuine(_, _)
FirstGenuine(t, i) ==
    IF i < Len(t) /\ t[i] = BACKSLASH /\ t[i + 1] = LF THEN FirstGenuine(t, i + 2) ELSE i

\* The Position of the character at index k of the text t of file f.
PointIn(f, t, k) ==
    Point(f, 1 + Newlines(Normalized(SubSeq(t, 1, k - 1))),
             1 + SinceNewline(Normalized(SubSeq(t, 1, k - 1))))

\* The Position of the character at index k of the text t of file 0.
PointAt(t, k) == PointIn(0, t, k)

\* The first next_token call on a single file has returned.
FirstCall == last.op = "next_token" /\ Len(files) = 1 /\ pushes = 1 /\ Len(out) = 1

\* The way the literal that starts the single file ends ("none" if the file
\* does not start with a quote).
StartsLiteral ==
    IF Despliced(files[1].text) # <<>> /\ Despliced(files[1].text)[1] \in {SQUOTE, DQUOTE}
    THEN LiteralEnd(Despliced(files[1].text), Despliced(files[1].text)[1], 2)
    ELSE "none"

\* The error of the first call carries the Position of the opening quote.
ErrAtQuote ==
    /\ out[1].tag = "Err"
    /\ out[1].pt = PointAt(files[1].text, FirstGenuine(files[1].text, 1))

\* C13: a literal that meets a newline before its closing quote gives an
\* error with the Position of the opening quote and leaves the newline
\* unconsumed, and the following call appends that newline to emit and goes
\* on with what follows it; a literal that meets the end of input gives an
\* error with the same Position and the following call returns Eof.
C13_UnterminatedLiteral ==
    /\ (FirstCall /\ StartsLiteral = "newline") =>
           /\ ErrAtQuote
           /\ peek_spliced(Src) = [peek_spliced(Src) EXCEPT !.tag = "Some", !.ch = LF]
           /\ next_token(Src, emit) =
                  next_token(next_spliced(Src).s, Append(emit, LF))
    /\ (FirstCall /\ StartsLiteral = "eof") =>
           /\ ErrAtQuote
           /\ next_token(Src, emit).r = Ok(Eof)

\* The genuine characters that no call has consumed yet, those of the active
\* file first.
RECURSIVE RestAll(_, _)
RestAll(fs, its) ==
    IF its = <<>> THEN <<>>
    ELSE Normalized(RestOf(fs, Last(its))) \o RestAll(fs, Front(its))

\* Text g has a star directly followed by a slash, from index i on.
HasTerminator(g, i) == \E j \in i..(Len(g) - 1) : g[j] = STAR /\ g[j + 1] = SLASH

\* The genuine characters to come are a block-comment opener that no
\* star-slash closes, and the opener's slash is in the active file.
UnterminatedComment ==
    /\ iters # <<>>
    /\ FirstGenuine(TextOf(files, Last(iters)), Last(iters).next + 1)
           <= Len(TextOf(files, Last(iters)))
    /\ Len(Despliced(RestAll(files, iters))) >= 2
    /\ Despliced(RestAll(files, iters))[1] = SLASH
    /\ Despliced(RestAll(files, iters))[2] = STAR
    /\ ~HasTerminator(Despliced(RestAll(files, iters)), 3)

\* The Position of the first genuine character of the active file.
OpenerPoint ==
    PointIn(Last(iters).file, TextOf(files, Last(iters)),
            FirstGenuine(TextOf(files, Last(iters)), Last(iters).next + 1))

\* C14: a next_token call that meets a block-comment opener which nothing
\* closes before the end of input returns an error with the Position of the
\* opener's slash, appends nothing to emit, leaves no character on the
\* stack of active files, and the following call returns Eof.
C14_UnterminatedComment ==
    [][(UnterminatedComment /\ last'.op = "next_token" /\ pushes' = pushes) =>
         /\ last'.r = Err("unterminated block comment.", OpenerPoint)
         /\ emit' = emit
         /\ iters' = <<>>
         /\ next_token([files |-> files', iters |-> iters', switched |-> switched',
                        panic |-> panicked'], emit').r = Ok(Eof)]_vars

\* C14 witness: the comment opened in an included file ran through the
\* rest of the including file.
C14_Witness ==
    /\ last.op = "next_token"
    /\ last.r.tag = "Err"
    /\ last.r.msg = "unterminated block comment."
    /\ last.r.pt = Point(1, 1, 1)
    /\ Len(files) = 2
    /\ files[1].text # <<>>
    /\ iters = <<>>

\* The index of the slash of the first star-slash of text g whose star is at
\* index i or after.
TerminatorEnd(g, i) ==
    1 + CHOOSE j \in i..(Len(g) - 1) :
            /\ g[j] = STAR /\ g[j + 1] = SLASH
            /\ \A k \in i..(j - 1) : ~(g[k] = STAR /\ g[k + 1] = SLASH)

\* The index of the first newline of text g at index i or after, or the
\* last index of g if there is none.
LineEnd(g, i) ==
    IF \E j \in i..Len(g) : g[j] = LF
    THEN CHOOSE j \in i..Len(g) : g[j] = LF /\ \A k \in i..(j - 1) : g[k] # LF
    ELSE Len(g)

\* The trivia of the genuine text g from index i on, for a text of
\* backslashes, white space, = / and *: each white-space character outside
\* a comment, and the characters c for each complete comment.  A punctuator
\* is the longest spelling; an unterminated block comment takes the rest.
RECURSIVE Trivia(_, _, _)
Trivia(g, i, c) ==
    IF i > Len(g) THEN <<>>
    ELSE IF is_ascii_whitespace(g[i]) THEN <<g[i]>> \o Trivia(g, i + 1, c)
    ELSE IF g[i] = SLASH /\ i < Len(g) /\ g[i + 1] = STAR
    THEN IF HasTerminator(g, i + 2)
         THEN c \o Trivia(g, TerminatorEnd(g, i + 2) + 1, c)
         ELSE <<>>
    ELSE IF g[i] = SLASH /\ i < Len(g) /\ g[i + 1] = SLASH
    THEN c \o Trivia(g, LineEnd(g, i + 2) + 1, c)
    ELSE IF g[i] \in {SLASH, STAR, 61} /\ i < Len(g) /\ g[i + 1] = 61
    THEN Trivia(g, i + 2, c)
    ELSE Trivia(g, i + 1, c)

\* The white space of text g outside comments.
Whitespace(g) == Trivia(g, 1, <<>>)

\* The number of complete comments of text g.
Comments(g) == Len(Trivia(g, 1, <<SPACE>>)) - Len(Whitespace(g))

\* The number of elements of sequence q equal to c.
RECURSIVE Count(_, _)
Count(q, c) == IF q = <<>> THEN 0 ELSE (IF Head(q) = c THEN 1 ELSE 0) + Count(Tail(q), c)

\* C17: every comment consumed completely appends exactly one space and
\* nothing of its body.  For a single-file text without a space outside
\* comments the spaces in emit are as many as the complete comments and
\* every other character of emit is a newline; for a text without splices
\* emit is the white space and one space per comment, in the order of the
\* text.
C17_OneSpacePerComment ==
    OneFileDone =>
        /\ Count(Whitespace(Despliced(files[1].text)), SPACE) = 0 =>
               /\ Count(emit, SPACE) = Comments(Despliced(files[1].text))
               /\ \A i \in 1..Len(emit) : emit[i] \in {SPACE, LF}
        /\ Despliced(files[1].text) = files[1].text =>
               emit = Trivia(files[1].text, 1, <<SPACE>>)

\* C17 witness: two line comments in a row gave two spaces.
C17_Witness ==
    /\ OneFileDone
    /\ files[1].text = <<SLASH, SLASH, LF, SLASH, SLASH>>
    /\ emit = <<SPACE, SPACE>>

\* The tokens the punctuator lookup returns for a comment opener.
CommentTokens == {Punct("BlockComment"), Punct("LineComment")}

\* C18: no next_token call returns Ok(BlockComment) or Ok(LineComment),
\* whatever the files on the stack and the calls made before.
C18_NoCommentToken ==
    /\ last.op = "next_token" => last.r.tok \notin CommentTokens
    /\ \A i \in 1..Len(out) : out[i].tok \notin CommentTokens

\* C18 witness: the lookup returned LineComment for the opener split over
\* two files, and the call that made it consumed the comment and returned
\* Eof.
C18_Witness ==
    /\ last.op = "next_token"
    /\ out = <<Ok(Eof)>>
    /\ Len(files) = 2
    /\ files[1].text = <<SLASH, 97>>
    /\ files[2].text = <<SLASH>>
    /\ lookup_op(push_data(OneFile(files[1].text), DataName, files[2].text),
                 OPERATORS).tok = Punct("LineComment")
    /\ emit = <<SPACE>>

\* The index after the pp-number that starts at index 1 of the genuine text
\* g, scanning from index i: letters, digits, _ and . belong to it, and so
\* does a sign directly after e or E.
RECURSIVE NumberEnd(_, _)
NumberEnd(g, i) ==
    IF i > Len(g) THEN i
    ELSE IF g[i] \in {LowerE, UpperE}
    THEN IF i < Len(g) /\ g[i + 1] \in {PLUS, MINUS}
         THEN NumberEnd(g, i + 2) ELSE NumberEnd(g, i + 1)
    ELSE IF is_ascii_alphanumeric(g[i]) \/ g[i] = UNDERSCORE \/ g[i] = DOT
    THEN NumberEnd(g, i + 1)
    ELSE i

\* The genuine text of the single file starts with a dot.
StartsDot ==
    /\ FirstCall
    /\ Despliced(files[1].text) # <<>>
    /\ Despliced(files[1].text)[1] = DOT

\* The dot that starts the single file is directly followed by a digit.
DotDigit ==
    /\ Len(Despliced(files[1].text)) >= 2
    /\ is_ascii_digit(Despliced(files[1].text)[2])

\* C19: for a text whose first genuine character is a dot, next_token
\* returns a Number that starts with the dot if and only if the genuine
\* character after the dot is a digit, the Number being the whole pp-number;
\* otherwise it returns Dot, only the dot is consumed, and the following
\* call returns what the text after the dot starts with.
C19_DotDisambiguation ==
    StartsDot =>
        IF DotDigit
        THEN /\ out[1] = Ok(Tok("Number",
                     SubSeq(Despliced(files[1].text), 1,
                            NumberEnd(Despliced(files[1].text), 1) - 1)))
             /\ out[1].tok.text[1] = DOT
        ELSE /\ out[1] = Ok(Punct("Dot"))
             /\ Despliced(RestAll(files, iters)) = Tail(Despliced(files[1].text))
             /\ next_token(Src, emit).r =
                    next_token(OneFile(Tail(Despliced(files[1].text))), <<>>).r

\* C19 witness: a dot, a splice and a digit started a Number with an
\* exponent.
C19_Witness ==
    /\ StartsDot
    /\ files[1].text = <<DOT, BACKSLASH, LF, 49, LowerE, MINUS, 49>>
    /\ out = <<Ok(Tok("Number", <<DOT, 49, LowerE, MINUS, 49>>))>>

\* The number of characters of text g from index i on that follow a path
\* of the table map.
RECURSIVE PathLen(_, _, _)
PathLen(g, map, i) ==
    IF i > Len(g) THEN 0
    ELSE IF g[i] \notin DOMAIN map THEN 0
    ELSE 1 + PathLen(g, map[g[i]].next, i + 1)

\* The token of the last node of that path, tok if the path is empty.
RECURSIVE PathToken(_, _, _, _)
PathToken(g, map, i, tok) ==
    IF i > Len(g) THEN tok
    ELSE IF g[i] \notin DOMAIN map THEN tok
    ELSE PathToken(g, map[g[i]].next, i + 1, map[g[i]].token)

\* The genuine text of the first file.
Genuine == Despliced(files[1].text)

\* The genuine text of the first file after its longest path in OPERATORS.
AfterPath == SubSeq(Genuine, PathLen(Genuine, OPERATORS, 1) + 1, Len(Genuine))

\* C20: on a single file the punctuator lookup consumes the longest run of
\* genuine characters that is a path of the table and returns the token of
\* the last node of the path, leaving the character after the path; and
\* next_token returns that token unless it is a comment opener.
C20_LongestMatch ==
    /\ (last.op = "push_data" /\ Len(files) = 1 /\ pushes = 1) =>
           /\ lookup_op(Src, OPERATORS).tok = PathToken(Genuine, OPERATORS, 1, NoTok)
           /\ Despliced(RestAll(files, lookup_op(Src, OPERATORS).s.iters)) = AfterPath
    /\ (/\ FirstCall
        /\ PathLen(Genuine, OPERATORS, 1) > 0
        /\ PathToken(Genuine, OPERATORS, 1, NoTok) \notin CommentTokens) =>
           /\ out[1] = Ok(PathToken(Genuine, OPERATORS, 1, NoTok))
           /\ Despliced(RestAll(files, iters)) = AfterPath
    /\ (FirstCall /\ Len(Genuine) >= 2 /\ SubSeq(Genuine, 1, 2) = <<60, 60>>) =>
           out[1] = Ok(Punct(IF Len(Genuine) >= 3 /\ Genuine[3] = 61
                             THEN "LeftShiftAssign" ELSE "ShiftLeft"))
    /\ (/\ FirstCall
        /\ Len(Genuine) >= 2
        /\ Genuine[1] = 60
        /\ Genuine[2] \notin {60, 61}) =>
           (out[1] = Ok(Punct("Less")) /\ Despliced(RestAll(files, iters)) = Tail(Genuine))

\* C20 witness: the three characters of <<= were consumed as one token.
C20_Witness ==
    /\ FirstCall
    /\ files[1].text = <<60, 60, 61>>
    /\ out = <<Ok(Punct("LeftShiftAssign"))>>
    /\ iters = <<>>

\* The genuine characters no call has consumed yet.
Unread == Despliced(RestAll(files, iters))

\* The next genuine character is not white space, starts no identifier,
\* number or literal, and is the first character of no punctuator.
StartsNothing ==
    /\ Unread # <<>>
    /\ ~is_ascii_whitespace(Unread[1])
    /\ ~is_ascii_alphanumeric(Unread[1])
    /\ Unread[1] \notin {UNDERSCORE, SQUOTE, DQUOTE}
    /\ Unread[1] \notin DOMAIN OPERATORS

\* C21: a next_token call made when the next genuine character starts
\* nothing returns Other of that character, a backslash included, consumes
\* that character only and appends nothing to emit.
C21_OtherCharacter ==
    [][(StartsNothing /\ last'.op = "next_token" /\ pushes' = pushes) =>
         /\ last'.r = Ok(Tok("Other", <<Unread[1]>>))
         /\ Unread' = Tail(Unread)
         /\ emit' = emit]_vars

\* C21 witness: a backslash followed by a letter was returned as Other and
\* the letter is still to come.
C21_Witness ==
    /\ last.op = "next_token"
    /\ last.r = Ok(Tok("Other", <<BACKSLASH>>))
    /\ Len(files) = 1
    /\ files[1].text = <<36, BACKSLASH, 97>>
    /\ Unread = <<97>>

\* The only unread character of the innermost file is a backslash and the
\* next unread character of its parent is a newline.
BackslashEndsFile ==
    /\ Len(iters) >= 2
    /\ RestOf(files, Last(iters)) = <<BACKSLASH>>
    /\ Normalized(RestOf(files, iters[Len(iters) - 1])) # <<>>
    /\ Head(Normalized(RestOf(files, iters[Len(iters) - 1]))) = LF

\* C22: a backslash that ends the innermost file is not joined with a
\* newline that starts the rest of the parent file: peek_spliced and
\* next_spliced return the backslash, and the next_spliced after that
\* returns the parent's newline.
C22_SpliceWithinFile ==
    BackslashEndsFile =>
        /\ peek_spliced(Src).tag = "Some"
        /\ peek_spliced(Src).ch = BACKSLASH
        /\ next_spliced(Src).r.tag = "Some"
        /\ next_spliced(Src).r.ch = BACKSLASH
        /\ next_spliced(next_spliced(Src).s).r.tag = "Some"
        /\ next_spliced(next_spliced(Src).s).r.ch = LF

\* The outcome of the (k+1)-th of k+1 successive next_spliced calls from
\* stream s.
RECURSIVE NthNextSpliced(_, _)
NthNextSpliced(s, k) ==
    IF k = 0 THEN next_spliced(s).r ELSE NthNextSpliced(next_spliced(s).s, k - 1)

\* Lookahead r shows the character and the Position of outcome n.
SameCharacter(r, n) == r.tag = n.tag /\ r.ch = n.ch /\ r.pt = n.pt

\* C25: on a stream with unread characters peek_spliced_n(k) returns the
\* character and the Position that the (k+1)-th of k+1 successive
\* next_spliced calls returns from the same state, for every k.
C25_PeekSplicedNIsNthNext ==
    iters # <<>> =>
        \A k \in 0..MaxPeek :
            SameCharacter(peek_spliced_n(Src, k), NthNextSpliced(Src, k))

\* C26: peek_spliced, when it returns, returns the character and the
\* Position that the next next_spliced call returns from the same state; it
\* returns nothing
\* exactly when no genuine character is unread; and on the last file of the
\* stack the Position is the one of the first character after the leading
\* splices.
C26_PeekSplicedIsNext ==
    (~panicked /\ peek_spliced(Src).tag # "Panic") =>
        /\ SameCharacter(peek_spliced(Src), next_spliced(Src).r)
        /\ (peek_spliced(Src).tag = "None") <=> (Unread = <<>>)
        /\ (Len(iters) = 1 /\ peek_spliced(Src).tag = "Some") =>
               peek_spliced(Src).pt =
                   PointIn(Last(iters).file, TextOf(files, Last(iters)),
                           FirstGenuine(TextOf(files, Last(iters)), Last(iters).next + 1))

\* C26 witness: two splices in a row are unread before a star, which
\* peek_spliced shows at line 3, column 1.
C26_Witness ==
    /\ files = <<SourceFile(DataName, <<BACKSLASH, LF, BACKSLASH, LF, STAR>>)>>
    /\ last.op = "push_data"
    /\ peek_spliced(Src).ch = STAR
    /\ peek_spliced(Src).pt = Point(0, 3, 1)
    /\ next_spliced(Src).r.ch = STAR

\* The unread genuine characters start with a block-comment opener.
AtBlockComment == Len(Unread) >= 2 /\ Unread[1] = SLASH /\ Unread[2] = STAR

\* The unread genuine characters after the first star-slash that follows
\* the opener.
AfterComment == SubSeq(Unread, TerminatorEnd(Unread, 3) + 1, Len(Unread))

\* skip_block_comment on the stream as it is after the opener.
SkippedComment == skip_block_comment(lookup_op(Src, OPERATORS).s)

\* Sequence q starts with sequence p.
StartsWith(q, p) == Len(q) >= Len(p) /\ SubSeq(q, 1, Len(p)) = p

\* Sequence q ends with sequence p.
EndsWith(q, p) == Len(q) >= Len(p) /\ SubSeq(q, Len(q) - Len(p) + 1, Len(q)) = p

\* skip_block_comment succeeds exactly when a star directly followed by a
\* slash comes after the opener, and then leaves what follows that slash.
C27_SkipStops ==
    (~panicked /\ AtBlockComment) =>
        /\ SkippedComment.ok <=> HasTerminator(Unread, 3)
        /\ SkippedComment.ok =>
               Despliced(RestAll(files, SkippedComment.s.iters)) = AfterComment

\* A next_token call at a terminated block comment appends the comment's
\* space and goes on after the terminator.
C27_CallGoesOn ==
    [][(/\ ~panicked
        /\ AtBlockComment
        /\ HasTerminator(Unread, 3)
        /\ last'.op = "next_token"
        /\ pushes' = pushes) =>
           /\ StartsWith(emit', Append(emit, SPACE))
           /\ EndsWith(AfterComment, Unread')]_vars

\* C27: a block comment ends at the first slash that comes directly after
\* a star among the characters after the opener, splices removed; the
\* opener's star is not that star.
C27_BlockCommentEnd == []C27_SkipStops /\ C27_CallGoesOn

\* C27 witness: in slash-star-slash-star-slash the comment was closed by
\* the second star and the last slash, not by the opener's star.
C27_Witness ==
    /\ FirstCall
    /\ files[1].text = <<SLASH, STAR, SLASH, STAR, SLASH>>
    /\ out = <<Ok(Eof)>>
    /\ emit = <<SPACE>>
    /\ iters = <<>>

\* The unread genuine characters start with a line-comment opener.
AtLineComment == Len(Unread) >= 2 /\ Unread[1] = SLASH /\ Unread[2] = SLASH

\* The unread genuine characters after the first newline that follows the
\* opener; none if there is no newline.
AfterLine == SubSeq(Unread, LineEnd(Unread, 3) + 1, Len(Unread))

\* skip_line_comment leaves what follows the first genuine newline after the
\* opener, and nothing when there is no newline.
C28_SkipStops ==
    (~panicked /\ AtLineComment) =>
        Despliced(RestAll(files, skip_line_comment(lookup_op(Src, OPERATORS).s).iters))
            = AfterLine

\* A next_token call at a line comment appends the comment's space and goes
\* on after the newline: nothing else is appended when a token or the end of
\* input follows directly, and the end of input is reported as Eof.
C28_CallGoesOn ==
    [][(/\ ~panicked
        /\ AtLineComment
        /\ last'.op = "next_token"
        /\ pushes' = pushes) =>
           /\ StartsWith(emit', Append(emit, SPACE))
           /\ EndsWith(AfterLine, Unread')
           /\ AfterLine = <<>> => (last'.r = Ok(Eof) /\ emit' = Append(emit, SPACE))
           /\ (AfterLine # <<>> /\ AfterLine[1] \in {61, STAR}) =>
                  (last'.r.tag = "Ok" /\ emit' = Append(emit, SPACE))]_vars

\* C28: a line comment extends through the first genuine newline after its
\* opener or to the end of input; the newline is consumed and not appended
\* to emit, a splice continues the comment, and reaching the end of input
\* is not an error.
C28_LineCommentEnd == []C28_SkipStops /\ C28_CallGoesOn

\* C28 witness: in // splice newline * the comment ran over the splice to
\* the newline, one space was appended and the star was returned.
C28_Witness ==
    /\ FirstCall
    /\ files[1].text = <<SLASH, SLASH>> \o Splice \o <<LF, STAR>>
    /\ out = <<Ok(Tok("Star", <<>>))>>
    /\ emit = <<SPACE>>

\* The unread genuine characters start a pp-number: a digit, or a dot
\* directly followed by a digit.
AtNumber ==
    /\ Unread # <<>>
    /\ \/ is_ascii_digit(Unread[1])
       \/ Unread[1] = DOT /\ Len(Unread) >= 2 /\ is_ascii_digit(Unread[2])

\* C29: a call made at a digit, or at a dot followed by a digit, returns
\* the Number made of the letters, digits, underscores and dots that follow,
\* with a sign only directly after an e or E and one sign per e or E; it
\* consumes exactly these characters.
C29_NumberExtent ==
    [][(~panicked /\ AtNumber /\ last'.op = "next_token" /\ pushes' = pushes) =>
         /\ last'.r = Ok(Tok("Number", SubSeq(Unread, 1, NumberEnd(Unread, 1) - 1)))
         /\ Unread' = SubSeq(Unread, NumberEnd(Unread, 1), Len(Unread))
         /\ emit' = emit]_vars

\* C29 witness: of 1e+-2 the first call returned the Number 1e+ and left
\* the second sign.
C29_Witness ==
    /\ FirstCall
    /\ files[1].text = <<49, LowerE, PLUS, MINUS, 50>>
    /\ out = <<Ok(Tok("Number", <<49, LowerE, PLUS>>))>>
    /\ Unread = <<MINUS, 50>>

\* The first index of text g, at i or after, whose character is not a
\* letter, a digit or an underscore.
RECURSIVE IdentEnd(_, _)
IdentEnd(g, i) ==
    IF i <= Len(g) /\ (is_ascii_alphanumeric(g[i]) \/ g[i] = UNDERSCORE)
    THEN IdentEnd(g, i + 1) ELSE i

\* The index of the quote q that closes the literal of the genuine text d,
\* scanning from index i; past the end if nothing closes it.
RECURSIVE ClosingQuote(_, _, _)
ClosingQuote(d, q, i) ==
    IF i > Len(d) \/ d[i] = q THEN i
    ELSE IF d[i] = BACKSLASH /\ i < Len(d) /\ d[i + 1] # LF THEN ClosingQuote(d, q, i + 2)
    ELSE ClosingQuote(d, q, i + 1)

\* The number of characters of the token tok that starts the genuine text g.
TokenLen(tok, g) ==
    IF tok.kind = "Identifier" THEN IdentEnd(g, 1) - 1
    ELSE IF tok.kind = "Number" THEN NumberEnd(g, 1) - 1
    ELSE IF tok.kind \in {"CharLiteral", "StringLiteral"} THEN ClosingQuote(g, g[1], 2)
    ELSE Len((CHOOSE sp \in Punctuators : sp[2] = tok.kind)[1])

\* The unread genuine characters start with a character of a token: not
\* white space and not a comment opener.
AtToken ==
    /\ Unread # <<>>
    /\ ~is_ascii_whitespace(Unread[1])
    /\ ~AtBlockComment
    /\ ~AtLineComment

\* C30: an Identifier that is returned carries the longest run of letters,
\* digits and underscores that starts at the current genuine character, and
\* after an Identifier, a Number, a literal or a punctuator is returned the
\* unread genuine characters are those that follow the token.
C30_MaximalMunch ==
    [][(/\ ~panicked
        /\ AtToken
        /\ last'.op = "next_token"
        /\ pushes' = pushes
        /\ last'.r.tag = "Ok"
        /\ last'.r.tok.kind \notin {"Eof", "Other"}) =>
           /\ last'.r.tok.kind = "Identifier" =>
                  /\ last'.r.tok.text = SubSeq(Unread, 1, IdentEnd(Unread, 1) - 1)
                  /\ last'.r.tok.text # <<>>
           /\ Unread' = SubSeq(Unread, TokenLen(last'.r.tok, Unread) + 1, Len(Unread))
           /\ emit' = emit]_vars

\* C30 witness: of a1_+a the first call returned the Identifier a1_ and
\* left the sign.
C30_Witness ==
    /\ FirstCall
    /\ files[1].text = <<97, 49, UNDERSCORE, PLUS, 97>>
    /\ out = <<Ok(Tok("Identifier", <<97, 49, UNDERSCORE>>))>>
    /\ Unread = <<PLUS, 97>>

\* The unread genuine characters start with a quote.
AtLiteral == Unread # <<>> /\ Unread[1] \in {SQUOTE, DQUOTE}

\* This step is a next_token call made at a quote that returns a literal.
LiteralReturned ==
    /\ ~panicked
    /\ AtLiteral
    /\ last'.op = "next_token"
    /\ pushes' = pushes
    /\ last'.r.tag = "Ok"
    /\ last'.r.tok.kind \in {"CharLiteral", "StringLiteral"}

\* C31 as stated: the quote that ends a returned literal never comes directly
\* after a genuine backslash.
C31_QuoteAfterBackslash ==
    [][LiteralReturned =>
         Unread[Len(Unread) - Len(Unread') - 1] # BACKSLASH]_vars

\* C31: a returned literal ends at the first quote of the opening kind that
\* is not the character taken along by a backslash, a backslash taking along
\* the character after it (also another backslash); the quotes of either
\* kind before that quote are content of the literal, and a literal closed
\* before a newline or the end of input is returned.
C31_EscapedQuote ==
    [][/\ LiteralReturned =>
           /\ last'.r.tok.kind =
                  (IF Unread[1] = SQUOTE THEN "CharLiteral" ELSE "StringLiteral")
           /\ ClosingQuote(Unread, Unread[1], 2) <= Len(Unread)
           /\ Unread' = SubSeq(Unread, ClosingQuote(Unread, Unread[1], 2) + 1, Len(Unread))
           /\ \A c \in {SQUOTE, DQUOTE} :
                  Count(last'.r.tok.text, c) =
                  Count(SubSeq(Unread, 2, ClosingQuote(Unread, Unread[1], 2) - 1), c)
       /\ (/\ ~panicked
           /\ AtLiteral
           /\ last'.op = "next_token"
           /\ pushes' = pushes
           /\ LiteralEnd(Unread, Unread[1], 2) = "closed") =>
              (last'.r.tag = "Ok"
                  /\ last'.r.tok.kind \in {"CharLiteral", "StringLiteral"})]_vars

\* C31 witness: the character literal of an escaped single quote and a
\* double quote was returned whole.
C31_Witness ==
    /\ FirstCall
    /\ files[1].text = <<SQUOTE, BACKSLASH, SQUOTE, DQUOTE, SQUOTE>>
    /\ out = <<Ok(Tok("CharLiteral", <<BACKSLASH, SQUOTE, DQUOTE>>))>>
    /\ iters = <<>>

\* The trivia at the head of the genuine text g from index i on: each
\* white-space character and one space per complete comment, up to the first
\* character of a token, an unterminated block comment or the end.
RECURSIVE LeadingTrivia(_, _)
LeadingTrivia(g, i) ==
    IF i > Len(g) THEN <<>>
    ELSE IF is_ascii_whitespace(g[i]) THEN <<g[i]>> \o LeadingTrivia(g, i + 1)
    ELSE IF i < Len(g) /\ g[i] = SLASH /\ g[i + 1] = SLASH
    THEN <<SPACE>> \o LeadingTrivia(g, LineEnd(g, i + 2) + 1)
    ELSE IF i < Len(g) /\ g[i] = SLASH /\ g[i + 1] = STAR /\ HasTerminator(g, i + 2)
    THEN <<SPACE>> \o LeadingTrivia(g, TerminatorEnd(g, i + 2) + 1)
    ELSE <<>>

\* C34: a next_token call appends to emit, after what was there, the
\* white-space characters that come before the token in source order and
\* one space per comment, and nothing else, whatever it returns.
C34_EmitAppendsTrivia ==
    [][(~panicked /\ last'.op = "next_token" /\ pushes' = pushes) =>
         emit' = emit \o LeadingTrivia(Unread, 1)]_vars

\* On a stream that satisfies the stack invariant the splice-aware
\* lookaheads of next_token return: peek_spliced always, peek_spliced_n when
\* the stack is not empty, as it is where next_token calls it.
C36_LookaheadsReturn ==
    C3_StackInvariant =>
        /\ peek_spliced(Src).tag # "Panic"
        /\ iters # <<>> => \A k \in 0..1 : peek_spliced_n(Src, k).tag # "Panic"

\* A next_token call on a stream that satisfies the stack invariant returns,
\* and the stream satisfies the invariant afterwards.
C36_CallReturns ==
    [][(C3_StackInvariant /\ last'.op = "next_token" /\ pushes' = pushes) =>
         /\ last'.r # Panic
         /\ C3_StackInvariant']_vars

\* C36: on a stream that satisfies the stack invariant no next_token call
\* reaches a panic and every lookahead returns, also when the input ends in
\* a backslash, in a backslash-newline pair or in a lone dot.
C36_NoPanic == []C36_LookaheadsReturn /\ C36_CallReturns

\* C36 witness: a dot followed by a splice that ends the input was returned
\* as Dot.
C36_Witness ==
    /\ FirstCall
    /\ files[1].text = <<DOT>> \o Splice
    /\ out = <<Ok(Punct("Dot"))>>
    /\ ~panicked

====
